---- MODULE Spec2Model ----
(***************************************************************************)
(* A model of the Lost tree-walking interpreter: the Environment scope     *)
(* chain (interpreter/environment.rs), the runtime values and callables    *)
(* (interpreter/types.rs) and the evaluator (interpreter/interpreter.rs).  *)
(*                                                                         *)
(* Environments are shared through Rc<RefCell<..>> in the interpreter, so  *)
(* they live in a heap 'envs' and are named by their index; every other    *)
(* runtime value (Box<..>, cloned on every read) is a plain TLA+ value.    *)
(***************************************************************************)
EXTENDS Integers, Sequences, FiniteSets, TLC

VARIABLES
    envs,         \* heap of Environments: envs[e] = [enclosing, values]
    environment,  \* Interpreter.environment: the active Environment
    output,       \* the lines written by print statements
    status,       \* "running" | "error" (interpret returned Err) | "panic" | "done"
    error,        \* the InterpretError returned by interpret, or NoError
    log,          \* exits of execute_block during the last step
    last,         \* the last operation performed and what it yielded
    program,      \* the statements interpret has executed so far
    steps         \* number of operations performed so far

vars == <<envs, environment, output, status, error, log, last, program, steps>>

----------------------------------------------------------------------------
(* Bounds of the model *)

MaxSteps == 4
MaxEnvs == 9

----------------------------------------------------------------------------
(* Runtime values: enum Type of types.rs *)

Nil == [kind |-> "Nil"]
\* a Number is held as the fraction num / den in lowest terms, den > 0: the
\* arithmetic of the f32 is exact here; rounding, the infinities and the sign
\* of zero are left out
Number(n) == [kind |-> "Number", num |-> n, den |-> 1]

RECURSIVE GCD(_, _)
GCD(a, b) == IF b = 0 THEN a ELSE GCD(b, a % b)

Abs(n) == IF n < 0 THEN 0 - n ELSE n

\* the Number n / d, d # 0
Quotient(n, d) ==
    LET g == GCD(Abs(n), Abs(d))
        sign == IF d < 0 THEN 0 - 1 ELSE 1
    IN [kind |-> "Number", num |-> sign * (n \div g), den |-> Abs(d) \div g]

\* the digits f32's to_string prints after the point
MaxDigits == 8

\* the decimal digits of r / den, 0 <= r < den, at most k of them
RECURSIVE Decimals(_, _, _)
Decimals(r, den, k) ==
    IF r = 0 \/ k = 0 THEN ""
    ELSE ToString((r * 10) \div den) \o Decimals((r * 10) % den, den, k - 1)

\* f32::to_string: no point for a whole number
NumberString(v) ==
    IF v.den = 1 THEN ToString(v.num)
    ELSE (IF v.num < 0 THEN "-" ELSE "") \o ToString(Abs(v.num) \div v.den) \o "."
         \o Decimals(Abs(v.num) % v.den, v.den, MaxDigits)
String(s) == [kind |-> "String", str |-> s]
Boolean(b) == [kind |-> "Boolean", bool |-> b]

\* Option::None where the code has an Option<Type>, Option<Box<Class>>, ...
None == [kind |-> "None"]

\* an empty HashMap<String, _>
EmptyMap == [x \in {} |-> None]

\* HashMap::insert
Insert(map, key, value) == [x \in DOMAIN map \cup {key} |-> IF x = key THEN value ELSE map[x]]

Function(name, arity, declaration, closure) ==
    [kind |-> "Function", name |-> name, arity |-> arity,
     declaration |-> declaration, closure |-> closure]

NativeFunction(name) == [kind |-> "NativeFunction", name |-> name, arity |-> 0]

Class(name, superclass, methods) ==
    [kind |-> "Class", name |-> name, arity |-> 0,
     superclass |-> superclass, methods |-> methods]

Instance(class) == [kind |-> "Instance", class |-> class, fields |-> EmptyMap]

\* Type::value: the string form used by +
value(v) ==
    CASE v.kind = "String" -> v.str
      [] v.kind = "Number" -> NumberString(v)
      [] v.kind = "Boolean" -> IF v.bool THEN "true" ELSE "false"
      [] v.kind = "Function" -> v.name.lexeme
      [] v.kind = "NativeFunction" -> v.name
      [] v.kind = "Class" -> v.name
      [] v.kind = "Instance" -> v.class.name
      [] OTHER -> "nil"

\* impl Display for Type: the string form used by print
Display(v) ==
    CASE v.kind = "Function" -> "Function <" \o v.name.lexeme \o ">"
      [] v.kind = "NativeFunction" -> "Native Function <" \o v.name \o ">"
      [] v.kind = "Class" -> "Class <" \o v.name \o ">"
      [] v.kind = "Instance" -> "Instance of <" \o v.class.name \o ">"
      [] OTHER -> value(v)

----------------------------------------------------------------------------
(* Results.  Result<Type, Error> and Result<Option<Type>, Error> are       *)
(* records carrying the interpreter state I after the call; tag "panic"    *)
(* stands for a todo!() reached in the code, which aborts the process.     *)

NoError == [kind |-> "None"]
InterpretError(msg, line) == [kind |-> "InterpretError", msg |-> msg, line |-> line]

Ok(I, v) == [I |-> I, tag |-> "ok", val |-> v, err |-> NoError]
Err(I, msg, line) == [I |-> I, tag |-> "err", val |-> None, err |-> InterpretError(msg, line)]
Panic(I) == [I |-> I, tag |-> "panic", val |-> None, err |-> NoError]

----------------------------------------------------------------------------
(* Environment (environment.rs), on a heap h of Environments *)

\* Environment::new
NewEnvironment(enclosing) == [enclosing |-> enclosing, values |-> EmptyMap]

\* define as it would be if a name already defined in the scope were kept
define_if_absent(h, e, name, v) ==
    IF name \in DOMAIN h[e].values THEN h ELSE [h EXCEPT ![e].values = Insert(@, name, v)]

\* Environment::define on the Environment e
define(h, e, name, v) == [h EXCEPT ![e].values = Insert(@, name, v)]

\* assign as it would be if the enclosing scopes were searched first
RECURSIVE assign_outermost(_, _, _, _)
assign_outermost(h, e, token, v) ==
    LET outer == assign_outermost(h, h[e].enclosing, token, v)
    IN IF h[e].enclosing # 0 /\ outer.ok
       THEN outer
       ELSE IF token.lexeme \in DOMAIN h[e].values
            THEN [ok |-> TRUE, h |-> define(h, e, token.lexeme, v), err |-> NoError]
            ELSE [ok |-> FALSE, h |-> h,
                  err |-> InterpretError("Undefined variable " \o token.lexeme, token.line)]

\* assign as it would be if assigning an undefined name declared it globally
RECURSIVE assign_or_declare(_, _, _, _)
assign_or_declare(h, e, token, v) ==
    IF token.lexeme \in DOMAIN h[e].values \/ h[e].enclosing = 0
    THEN [ok |-> TRUE, h |-> define(h, e, token.lexeme, v), err |-> NoError]
    ELSE assign_or_declare(h, h[e].enclosing, token, v)

\* Environment::assign: the heap after the call, or the error
RECURSIVE assign(_, _, _, _)
assign(h, e, token, v) ==
    IF token.lexeme \in DOMAIN h[e].values
    THEN [ok |-> TRUE, h |-> define(h, e, token.lexeme, v), err |-> NoError]
    ELSE IF h[e].enclosing # 0
         THEN assign(h, h[e].enclosing, token, v)
         ELSE [ok |-> FALSE, h |-> h,
               err |-> InterpretError("Undefined variable " \o token.lexeme, token.line)]

\* Environment::get
RECURSIVE get(_, _, _)
get(h, e, name) ==
    IF name.token_type = "Identifier"
    THEN IF name.lexeme \in DOMAIN h[e].values
         THEN [ok |-> TRUE, val |-> h[e].values[name.lexeme], err |-> NoError]
         ELSE IF h[e].enclosing # 0
              THEN get(h, h[e].enclosing, name)
              ELSE [ok |-> FALSE, val |-> None,
                    err |-> InterpretError("Undefined variable '" \o name.lexeme \o "'.", name.line)]
    ELSE [ok |-> FALSE, val |-> None,
          err |-> InterpretError("Attempt to get value of a non-identifier token.", name.line)]

----------------------------------------------------------------------------
(* Tokens (lexer/token.rs) and the AST (parser/expr.rs, parser/stmt.rs) *)

\* the f32 of a literal, the fraction num / den in lowest terms
NumberType(n) == [kind |-> "NumberType", num |-> n, den |-> 1]
StringType(s) == [kind |-> "StringType", str |-> s]

\* Token::new
Token(token_type, lexeme, literal, line) ==
    [token_type |-> token_type, lexeme |-> lexeme, literal |-> literal, line |-> line]

Binary(left, operator, right) ==
    [node |-> "Binary", left |-> left, operator |-> operator, right |-> right]
Call(callee, closing_paren, arguments) ==
    [node |-> "Call", callee |-> callee, closing_paren |-> closing_paren, arguments |-> arguments]
Get(object, name) == [node |-> "Get", object |-> object, name |-> name]
Set(object, name, val) == [node |-> "Set", object |-> object, name |-> name, value |-> val]
Grouping(expr) == [node |-> "Grouping", expr |-> expr]
Unary(operator, right) == [node |-> "Unary", operator |-> operator, right |-> right]
Literal(token) == [node |-> "Literal", token |-> token]
Logical(left, operator, right) ==
    [node |-> "Logical", left |-> left, operator |-> operator, right |-> right]
Variable(name) == [node |-> "Variable", name |-> name]
Assign(name, val) == [node |-> "Assign", name |-> name, value |-> val]

Block(statements) == [node |-> "Block", statements |-> statements]
ClassDecl(name, superclass, statements) ==
    [node |-> "Class", name |-> name, superclass |-> superclass, statements |-> statements]
Expression(expr) == [node |-> "Expression", expr |-> expr]
FunctionDecl(name, parameters, body) ==
    [node |-> "Function", name |-> name, parameters |-> parameters, body |-> body]
IfElse(condition, then_branch, else_branch) ==
    [node |-> "IfElse", condition |-> condition, then_branch |-> then_branch,
     else_branch |-> else_branch]
PrintStmt(expr) == [node |-> "Print", expr |-> expr]
Return(token, expr) == [node |-> "Return", token |-> token, expr |-> expr]
Var(name, initializer) == [node |-> "Var", name |-> name, initializer |-> initializer]
WhileLoop(condition, statement) ==
    [node |-> "WhileLoop", condition |-> condition, statement |-> statement]

\* Option::None where the AST has an Option<Box<Expr>> or an Option<Box<Stmt>>
NoNode == [node |-> "None"]

----------------------------------------------------------------------------
(* Interpreter helpers (interpreter.rs) *)

\* Interpreter.globals: the first Environment created by Interpreter::new
globals == 1

\* Interpreter::get_number_or_return_error
get_number_or_return_error(v, line) ==
    IF v.kind = "Number"
    THEN [ok |-> TRUE, num |-> v.num, den |-> v.den, err |-> NoError]
    ELSE [ok |-> FALSE, num |-> 0, den |-> 1,
          err |-> InterpretError("Expected Number, got " \o Display(v), line)]

\* Interpreter::is_equal; panic stands for the todo!() arms
is_equal(left_expr, right_expr) ==
    CASE left_expr.kind = "Nil" -> [panic |-> FALSE, eq |-> right_expr.kind = "Nil"]
      [] left_expr.kind = "Boolean" ->
            [panic |-> FALSE,
             eq |-> right_expr.kind = "Boolean" /\ left_expr.bool = right_expr.bool]
      [] left_expr.kind = "Number" ->
            [panic |-> FALSE,
             eq |-> /\ right_expr.kind = "Number"
                    /\ left_expr.num = right_expr.num
                    /\ left_expr.den = right_expr.den]
      [] left_expr.kind = "String" ->
            [panic |-> FALSE,
             eq |-> right_expr.kind = "String" /\ left_expr.str = right_expr.str]
      [] OTHER -> [panic |-> TRUE, eq |-> FALSE]

\* Interpreter::is_truthly; panic stands for the todo!() arms
is_truthly(v) ==
    CASE v.kind = "String" -> [panic |-> FALSE, truth |-> TRUE]
      [] v.kind = "Number" -> [panic |-> FALSE, truth |-> v.num # 0]
      [] v.kind = "Boolean" -> [panic |-> FALSE, truth |-> v.bool]
      [] v.kind = "Nil" -> [panic |-> FALSE, truth |-> FALSE]
      [] OTHER -> [panic |-> TRUE, truth |-> FALSE]

\* a lookup in the method table of the class alone, the superclass left out
find_method_own(class, method_name) ==
    IF method_name \in DOMAIN class.methods THEN class.methods[method_name] ELSE None

\* Class::find_method
RECURSIVE find_method(_, _)
find_method(class, method_name) ==
    IF method_name \in DOMAIN class.methods
    THEN class.methods[method_name]
    ELSE IF class.superclass.kind = "Class"
         THEN find_method(class.superclass, method_name)
         ELSE None

\* Instance::get
instance_get(I, instance, name) ==
    IF name.lexeme \in DOMAIN instance.fields
    THEN Ok(I, instance.fields[name.lexeme])
    ELSE LET method == find_method(instance.class, name.lexeme)
         IN IF method.kind # "None"
            THEN Ok(I, method)
            ELSE Err(I, "Property does not exist", name.line)

\* Instance::set, on the Instance value it is called on
instance_set(instance, name, v) ==
    [instance EXCEPT !.fields = Insert(@, name.lexeme, v)]

\* a new Environment on the heap (Rc::new(RefCell::new(..))); its index is Len + 1
Alloc(I, env) == [I EXCEPT !.envs = Append(@, env)]

----------------------------------------------------------------------------
(* The evaluator (interpreter.rs, types.rs).  I is the interpreter state   *)
(* [envs, environment, output, log, now]; every operator yields a result   *)
(* record with the state after the call.                                   *)

RECURSIVE evaluate(_, _), evaluate_arguments(_, _, _, _), execute(_, _),
          execute_statements(_, _, _, _), while_iterations(_, _, _)

\* Interpreter::visit_literal
visit_literal(I, lit) ==
    CASE lit.token_type = "String" ->
            IF lit.literal.kind = "StringType" THEN Ok(I, String(lit.literal.str))
            ELSE IF lit.literal.kind = "NumberType"
                 THEN Err(I, "Expected String, got Number: '" \o ToString(lit.literal.num) \o "'",
                          lit.line)
                 ELSE Err(I, "Expected String, got None", lit.line)
      [] lit.token_type = "Number" ->
            IF lit.literal.kind = "NumberType"
            THEN Ok(I, [Number(lit.literal.num) EXCEPT !.den = lit.literal.den])
            ELSE IF lit.literal.kind = "StringType"
                 THEN Err(I, "Expected String, got String: '" \o lit.literal.str \o "'", lit.line)
                 ELSE Err(I, "Expected String, got None", lit.line)
      [] lit.token_type = "True" -> Ok(I, Boolean(TRUE))
      [] lit.token_type = "False" -> Ok(I, Boolean(FALSE))
      [] lit.token_type = "Nil" -> Ok(I, Nil)
      [] OTHER -> Err(I, "Unexpected! unreachable code reached", lit.line)

\* Interpreter::visit_variable
visit_variable(I, variable) ==
    LET r == get(I.envs, I.environment, variable)
    IN IF r.ok THEN Ok(I, r.val) ELSE [Err(I, "", 0) EXCEPT !.err = r.err]

\* Interpreter::visit_assign
visit_assign(I, variable, expr) ==
    LET v == evaluate(I, expr)
    IN IF v.tag # "ok" THEN v
       ELSE LET r == assign(v.I.envs, v.I.environment, variable, v.val)
            IN IF r.ok THEN Ok([v.I EXCEPT !.envs = r.h], v.val)
               ELSE [Err(v.I, "", 0) EXCEPT !.err = r.err]

\* a + that turns a Number into its string form when the other operand is
\* not a Number
plus_coercing(I, left_value, right_value, line) ==
    IF left_value.kind = "Number" /\ right_value.kind = "Number"
    THEN Ok(I, Quotient(left_value.num * right_value.den + right_value.num * left_value.den,
                        left_value.den * right_value.den))
    ELSE Ok(I, String(value(left_value) \o value(right_value)))

\* the arm TokenType::Plus of Interpreter::visit_binary
plus(I, left_value, right_value, line) ==
    LET l == get_number_or_return_error(left_value, line)
        r == get_number_or_return_error(right_value, line)
    IN IF l.ok
       THEN IF ~r.ok THEN [Err(I, "", 0) EXCEPT !.err = r.err]
            ELSE Ok(I, Quotient(l.num * r.den + r.num * l.den, l.den * r.den))
       ELSE IF r.ok
            THEN Err(I, "Expected String, got " \o Display(right_value), line)
            ELSE Ok(I, String(value(left_value) \o value(right_value)))

\* a / that rounds the quotient down to a whole number
slash_whole(I, left_value, right_value, line) ==
    LET l == get_number_or_return_error(left_value, line)
        r == get_number_or_return_error(right_value, line)
    IN IF ~r.ok THEN [Err(I, "", 0) EXCEPT !.err = r.err]
       ELSE IF r.num = 0 THEN Err(I, "Division by Zero", line)
       ELSE IF ~l.ok THEN [Err(I, "", 0) EXCEPT !.err = l.err]
       ELSE Ok(I, Number(Quotient(l.num * r.den, l.den * r.num).num
                         \div Quotient(l.num * r.den, l.den * r.num).den))

\* the arm TokenType::Slash of Interpreter::visit_binary
slash(I, left_value, right_value, line) ==
    LET l == get_number_or_return_error(left_value, line)
        r == get_number_or_return_error(right_value, line)
    IN IF ~r.ok THEN [Err(I, "", 0) EXCEPT !.err = r.err]
       ELSE IF r.num = 0 THEN Err(I, "Division by Zero", line)
       ELSE IF ~l.ok THEN [Err(I, "", 0) EXCEPT !.err = l.err]
       ELSE Ok(I, Quotient(l.num * r.den, l.den * r.num))

\* the arms of the match on operator.token_type in Interpreter::visit_binary
binary_operation(I, left_value, operator, right_value) ==
    LET line == operator.line
        l == get_number_or_return_error(left_value, line)
        r == get_number_or_return_error(right_value, line)
        fail(n) == [Err(I, "", 0) EXCEPT !.err = n.err]
        op == operator.token_type
    IN CASE op = "Minus" ->
                IF ~l.ok THEN fail(l) ELSE IF ~r.ok THEN fail(r)
                ELSE Ok(I, Quotient(l.num * r.den - r.num * l.den, l.den * r.den))
         [] op = "Slash" -> slash(I, left_value, right_value, line)
         [] op = "Star" ->
                IF ~l.ok THEN fail(l) ELSE IF ~r.ok THEN fail(r)
                ELSE Ok(I, Quotient(l.num * r.num, l.den * r.den))
         [] op = "Plus" -> plus(I, left_value, right_value, line)
         [] op \in {"Greater", "GreaterEqual", "Less", "LessEqual"} ->
                IF ~l.ok THEN fail(l) ELSE IF ~r.ok THEN fail(r)
                ELSE Ok(I, Boolean(CASE op = "Greater" -> l.num * r.den > r.num * l.den
                                     [] op = "GreaterEqual" -> l.num * r.den >= r.num * l.den
                                     [] op = "Less" -> l.num * r.den < r.num * l.den
                                     [] OTHER -> l.num * r.den <= r.num * l.den))
         [] op \in {"EqualEqual", "BangEqual"} ->
                LET e == is_equal(left_value, right_value)
                IN IF e.panic THEN Panic(I)
                   ELSE Ok(I, Boolean(IF op = "EqualEqual" THEN e.eq ELSE ~e.eq))
         [] OTHER -> Err(I, "Unexpected Operator, got " \o operator.lexeme, line)

\* Interpreter::visit_binary
visit_binary(I, left_expr, operator, right_expr) ==
    LET l == evaluate(I, left_expr)
    IN IF l.tag # "ok" THEN l
       ELSE LET r == evaluate(l.I, right_expr)
            IN IF r.tag # "ok" THEN r
               ELSE binary_operation(r.I, l.val, operator, r.val)

\* Interpreter::visit_grouping
visit_grouping(I, grouping_expr) == evaluate(I, grouping_expr)

\* Interpreter::visit_get
visit_get(I, expr, name) ==
    LET object == evaluate(I, expr)
    IN IF object.tag # "ok" THEN object
       ELSE IF object.val.kind = "Instance"
            THEN instance_get(object.I, object.val, name)
            ELSE Err(object.I, "Only instances have properties", name.line)

\* Interpreter::visit_set: 'object' is the clone evaluate returned, set is
\* called on that clone and the clone is dropped when the function returns
visit_set(I, expr, name, val) ==
    LET object == evaluate(I, expr)
    IN IF object.tag # "ok" THEN object
       ELSE IF object.val.kind = "Instance"
            THEN LET v == evaluate(object.I, val)
                 IN IF v.tag # "ok" THEN v
                    ELSE LET instance == instance_set(object.val, name, v.val)
                         IN Ok(v.I, Nil)
            ELSE Err(object.I, "Only instances have fields", name.line)

\* Interpreter::visit_unary
visit_unary(I, operator, unary_expr) ==
    LET right == evaluate(I, unary_expr)
    IN IF right.tag # "ok" THEN right
       ELSE CASE operator.token_type = "Minus" ->
                    IF right.val.kind = "Number"
                    THEN Ok(right.I, [right.val EXCEPT !.num = 0 - @])
                    ELSE Err(right.I, "Expected Number, got " \o Display(right.val),
                             operator.line)
              [] operator.token_type = "Bang" ->
                    LET t == is_truthly(right.val)
                    IN IF t.panic THEN Panic(right.I) ELSE Ok(right.I, Boolean(~t.truth))
              [] OTHER -> Err(right.I, "Expected '!' or '-', got " \o operator.lexeme,
                              operator.line)

\* Interpreter::visit_logical
visit_logical(I, left_expr, logical_and_or, right_expr) ==
    LET left_value == evaluate(I, left_expr)
        t == is_truthly(left_value.val)
    IN IF left_value.tag # "ok" THEN left_value
       ELSE CASE logical_and_or.token_type = "Or" ->
                    IF t.panic THEN Panic(left_value.I)
                    ELSE IF t.truth THEN left_value
                    ELSE evaluate(left_value.I, right_expr)
              [] logical_and_or.token_type = "And" ->
                    IF t.panic THEN Panic(left_value.I)
                    ELSE IF ~t.truth THEN left_value
                    ELSE evaluate(left_value.I, right_expr)
              [] OTHER -> Panic(left_value.I)

\* the Environment of a call as it would be with the caller's active
\* Environment as parent
call_environment_at_call_site(I, function, arguments) ==
    LET parameters == function.declaration.parameters
        place(x) == CHOOSE i \in 1..Len(parameters) :
                        /\ parameters[i].lexeme = x
                        /\ \A j \in (i + 1)..Len(parameters) : parameters[j].lexeme # x
    IN [enclosing |-> I.environment,
        values |-> [x \in {parameters[i].lexeme : i \in 1..Len(parameters)} |->
                        arguments[place(x)]]]

\* Function::call, the Environment it builds before running the body: its
\* parent is the closure, each parameter is defined to the argument at its place
call_environment(I, function, arguments) ==
    LET parameters == function.declaration.parameters
        place(x) == CHOOSE i \in 1..Len(parameters) :
                        /\ parameters[i].lexeme = x
                        /\ \A j \in (i + 1)..Len(parameters) : parameters[j].lexeme # x
    IN [enclosing |-> function.closure,
        values |-> [x \in {parameters[i].lexeme : i \in 1..Len(parameters)} |->
                        arguments[place(x)]]]

\* Interpreter::execute_block, leaving the block: the active Environment and
\* the record of the exit.  The early return of a return value (line 144)
\* leaves self.environment as it is; the two other paths assign temp to it.
block_exit(I, path, temp) ==
    LET after == IF path = "return" THEN I.environment ELSE temp
    IN [I EXCEPT !.environment = after,
                 !.log = Append(@, [path |-> path, before |-> temp, after |-> after])]

\* Interpreter::execute_block
execute_block(I, statements, env) ==
    execute_statements([I EXCEPT !.environment = env], statements, 1, I.environment)

\* the for loop of Interpreter::execute_block, from statement i on
execute_statements(I, statements, i, temp) ==
    IF i > Len(statements)
    THEN Ok(block_exit(I, "normal", temp), None)
    ELSE LET r == execute(I, statements[i])
         IN CASE r.tag = "err" -> [r EXCEPT !.I = block_exit(r.I, "error", temp)]
              [] r.tag = "panic" -> r
              [] r.val.kind # "None" -> [r EXCEPT !.I = block_exit(r.I, "return", temp)]
              [] OTHER -> execute_statements(r.I, statements, i + 1, temp)

\* Function::call, after the body has run: the value the body returned is the
\* value of the call, Nil when it returned none
function_return(r) ==
    IF r.tag # "ok" THEN r
    ELSE IF r.val.kind # "None" THEN Ok(r.I, r.val) ELSE Ok(r.I, Nil)

\* Function::call
function_call(I, function, arguments) ==
    LET I1 == Alloc(I, call_environment(I, function, arguments))
    IN function_return(execute_block(I1, function.declaration.body, Len(I1.envs)))

\* NativeFunction::call; the one native function, clock, prints the time
native_call(I, function) == Ok([I EXCEPT !.output = Append(@, ToString(I.now))], Nil)

\* Class::call
class_call(I, class) == Ok(I, Instance(class))

\* the loop over the arguments in Interpreter::visit_call
evaluate_arguments(I, arguments, i, evaluated_arguments) ==
    IF i > Len(arguments)
    THEN Ok(I, [kind |-> "Arguments", list |-> evaluated_arguments])
    ELSE LET a == evaluate(I, arguments[i])
         IN IF a.tag # "ok" THEN a
            ELSE evaluate_arguments(a.I, arguments, i + 1, Append(evaluated_arguments, a.val))

\* a call that checks the callee and the number of arguments before it
\* evaluates the arguments
visit_call_check_first(I, callee_expr, closing_paren, arguments) ==
    LET callee == evaluate(I, callee_expr)
        args == evaluate_arguments(callee.I, arguments, 1, <<>>)
    IN IF callee.tag # "ok" THEN callee
       ELSE IF callee.val.kind \notin {"Function", "NativeFunction", "Class"}
            THEN Err(callee.I, "Not a function", closing_paren.line)
       ELSE IF callee.val.arity # Len(arguments)
            THEN Err(callee.I, "Number of arguments does not match number of parameters",
                     closing_paren.line)
       ELSE IF args.tag # "ok" THEN args
       ELSE CASE callee.val.kind = "Function" ->
                    function_call(args.I, callee.val, args.val.list)
              [] callee.val.kind = "NativeFunction" -> native_call(args.I, callee.val)
              [] OTHER -> class_call(args.I, callee.val)

\* Interpreter::visit_call
visit_call(I, callee_expr, closing_paren, arguments) ==
    LET callee == evaluate(I, callee_expr)
        args == evaluate_arguments(callee.I, arguments, 1, <<>>)
        mismatch == Err(args.I, "Number of arguments does not match number of parameters",
                        closing_paren.line)
    IN IF callee.tag # "ok" THEN callee
       ELSE IF args.tag # "ok" THEN args
       ELSE CASE callee.val.kind = "Function" ->
                    IF callee.val.arity # Len(args.val.list) THEN mismatch
                    ELSE function_call(args.I, callee.val, args.val.list)
              [] callee.val.kind = "NativeFunction" ->
                    IF callee.val.arity # Len(args.val.list) THEN mismatch
                    ELSE native_call(args.I, callee.val)
              [] callee.val.kind = "Class" ->
                    IF Len(args.val.list) # 0 THEN mismatch
                    ELSE class_call(args.I, callee.val)
              [] OTHER -> Err(args.I, "Not a function", closing_paren.line)

\* impl Visitable for Expr: accept, as called by Interpreter::evaluate
evaluate(I, expr) ==
    CASE expr.node = "Binary" -> visit_binary(I, expr.left, expr.operator, expr.right)
      [] expr.node = "Call" -> visit_call(I, expr.callee, expr.closing_paren, expr.arguments)
      [] expr.node = "Get" -> visit_get(I, expr.object, expr.name)
      [] expr.node = "Set" -> visit_set(I, expr.object, expr.name, expr.value)
      [] expr.node = "Grouping" -> visit_grouping(I, expr.expr)
      [] expr.node = "Unary" -> visit_unary(I, expr.operator, expr.right)
      [] expr.node = "Literal" -> visit_literal(I, expr.token)
      [] expr.node = "Logical" -> visit_logical(I, expr.left, expr.operator, expr.right)
      [] expr.node = "Variable" -> visit_variable(I, expr.name)
      [] expr.node = "Assign" -> visit_assign(I, expr.name, expr.value)

\* the end of a visitor whose last expression is Ok(None): what the call before
\* it yielded is dropped
discard(r) == IF r.tag # "ok" THEN r ELSE Ok(r.I, None)

\* Interpreter::visit_block
visit_block(I, statements) ==
    LET I1 == Alloc(I, NewEnvironment(I.environment))
    IN discard(execute_block(I1, statements, Len(I1.envs)))

\* the method table built by the loop of Interpreter::visit_class: a later
\* method of the same name replaces an earlier one
class_methods(I, name, statements) ==
    LET last_of(x) == CHOOSE i \in 1..Len(statements) :
                          /\ statements[i].name.lexeme = x
                          /\ \A j \in (i + 1)..Len(statements) : statements[j].name.lexeme # x
    IN [x \in {statements[i].name.lexeme : i \in 1..Len(statements)} |->
            Function(name, Len(statements[last_of(x)].parameters), statements[last_of(x)],
                     I.environment)]

\* Interpreter::visit_class, its last step: the class is assigned to its name
\* and the result of the assignment is not looked at
class_assign(I, name, parent, methods) ==
    LET assigned == assign(I.envs, I.environment, name, Class(name.lexeme, parent, methods))
    IN Ok([I EXCEPT !.envs = assigned.h], None)

\* Interpreter::visit_class, with the superclass evaluated the second time
class_superclass(second, name, methods) ==
    IF second.tag # "ok" THEN second
    ELSE IF second.val.kind # "Class"
         THEN Err(second.I, "Sueprclass must be a class", name.line)
         ELSE class_assign(second.I, name, second.val, methods)

\* Interpreter::visit_class, from the definition of the name to Nil on
class_declare(I, name, superclass, statements) ==
    LET I2 == [I EXCEPT !.envs = define(@, I.environment, name.lexeme, Nil)]
    IN IF \E i \in 1..Len(statements) : statements[i].node # "Function"
       THEN Err(I2, "Method is not a function statement", name.line)
       ELSE IF superclass.node = "None"
            THEN class_assign(I2, name, None, class_methods(I2, name, statements))
            ELSE class_superclass(evaluate(I2, superclass), name,
                                  class_methods(I2, name, statements))

\* Interpreter::visit_class, with the superclass evaluated the first time
class_checked(first, name, superclass, statements) ==
    IF first.tag # "ok" THEN first
    ELSE IF first.val.kind # "Class"
         THEN Err(first.I, "Superclass must be a class", name.line)
         ELSE class_declare(first.I, name, superclass, statements)

\* Interpreter::visit_class
visit_class(I, name, superclass, statements) ==
    IF superclass.node = "None"
    THEN class_declare(I, name, superclass, statements)
    ELSE class_checked(evaluate(I, superclass), name, superclass, statements)

\* Interpreter::visit_expression
visit_expression(I, expr) == discard(evaluate(I, expr))

\* Interpreter::visit_print, with the expression evaluated
println(r) ==
    IF r.tag # "ok" THEN r
    ELSE Ok([r.I EXCEPT !.output = Append(@, Display(r.val))], None)

\* Interpreter::visit_print
visit_print(I, expr) == println(evaluate(I, expr))

\* Interpreter::visit_var, with the initializer evaluated
define_variable(r, token) ==
    IF r.tag # "ok" THEN r
    ELSE Ok([r.I EXCEPT !.envs = define(@, r.I.environment, token.lexeme, r.val)], None)

\* Interpreter::visit_var
visit_var(I, token, expr) ==
    IF expr.node = "None"
    THEN Ok([I EXCEPT !.envs = define(@, I.environment, token.lexeme, Nil)], None)
    ELSE define_variable(evaluate(I, expr), token)

\* Interpreter::visit_ifelse, with the condition evaluated
branch(c, then_branch, else_branch) ==
    LET t == is_truthly(c.val)
    IN IF c.tag # "ok" THEN c
       ELSE IF t.panic THEN Panic(c.I)
       ELSE IF t.truth THEN execute(c.I, then_branch)
       ELSE IF else_branch.node # "None" THEN execute(c.I, else_branch)
       ELSE Ok(c.I, None)

\* Interpreter::visit_ifelse
visit_ifelse(I, condition, then_branch, else_branch) ==
    branch(evaluate(I, condition), then_branch, else_branch)

\* the while loop of Interpreter::visit_whileloop, with the body executed: the
\* value the body yields is dropped (line 597) and the condition is evaluated
\* again
while_body(body, condition, statement) ==
    IF body.tag # "ok" THEN body
    ELSE while_iterations(evaluate(body.I, condition), condition, statement)

\* the while loop of Interpreter::visit_whileloop, with the condition evaluated
while_iterations(c, condition, statement) ==
    LET t == is_truthly(c.val)
    IN IF c.tag # "ok" THEN c
       ELSE IF t.panic THEN Panic(c.I)
       ELSE IF ~t.truth THEN Ok(c.I, None)
       ELSE while_body(execute(c.I, statement), condition, statement)

\* Interpreter::visit_whileloop
visit_whileloop(I, condition, statement) ==
    while_iterations(evaluate(I, condition), condition, statement)

\* the scope Interpreter::visit_function defines the name in (line 624)
function_scope(I) == globals

\* Interpreter::visit_function
visit_function(I, name, parameters, body) ==
    LET function == Function(name, Len(parameters), FunctionDecl(name, parameters, body),
                             I.environment)
    IN Ok([I EXCEPT !.envs = define(@, function_scope(I), name.lexeme, function)], None)

\* Interpreter::visit_return
visit_return(I, token, expr) == evaluate(I, expr)

\* impl Visitable for Stmt: accept, as called by Interpreter::execute
execute(I, stmt) ==
    CASE stmt.node = "Block" -> visit_block(I, stmt.statements)
      [] stmt.node = "Class" -> visit_class(I, stmt.name, stmt.superclass, stmt.statements)
      [] stmt.node = "Expression" -> visit_expression(I, stmt.expr)
      [] stmt.node = "Function" -> visit_function(I, stmt.name, stmt.parameters, stmt.body)
      [] stmt.node = "IfElse" ->
            visit_ifelse(I, stmt.condition, stmt.then_branch, stmt.else_branch)
      [] stmt.node = "Print" -> visit_print(I, stmt.expr)
      [] stmt.node = "Return" -> visit_return(I, stmt.token, stmt.expr)
      [] stmt.node = "Var" -> visit_var(I, stmt.name, stmt.initializer)
      [] stmt.node = "WhileLoop" -> visit_whileloop(I, stmt.condition, stmt.statement)

----------------------------------------------------------------------------
(* The programs interpreted.  A program is a sequence of the statements    *)
(* below, written as the parser builds them; the number before a line is   *)
(* the source line its tokens carry.                                       *)

Identifier(lexeme, line) == Token("Identifier", lexeme, None, line)
Operator(token_type, lexeme, line) == Token(token_type, lexeme, None, line)
NumberLiteral(n, line) == Literal(Token("Number", ToString(n), NumberType(n), line))
StringLiteral(s, line) == Literal(Token("String", s, StringType(s), line))
Name(lexeme, line) == Variable(Identifier(lexeme, line))
CallOf(lexeme, arguments, line) ==
    Call(Name(lexeme, line), Operator("RightParen", ")", line), arguments)
ReturnOf(expr, line) == Return(Operator("Return", "return", line), expr)

\*  1  fun makeCounter() {
\*  2    var i = 0;
\*  3    fun inc() { i = i + 1; return i; }
\*  4    return inc;
\*  5  }
DeclareMakeCounter ==
    FunctionDecl(Identifier("makeCounter", 1), <<>>,
        << Var(Identifier("i", 2), NumberLiteral(0, 2)),
           FunctionDecl(Identifier("inc", 3), <<>>,
               << Expression(Assign(Identifier("i", 3),
                      Binary(Name("i", 3), Operator("Plus", "+", 3), NumberLiteral(1, 3)))),
                  ReturnOf(Name("i", 3), 3) >>),
           ReturnOf(Name("inc", 4), 4) >>)

\*  6  var c = makeCounter();
VarC == Var(Identifier("c", 6), CallOf("makeCounter", <<>>, 6))
\*  7  print c();
PrintC == PrintStmt(CallOf("c", <<>>, 7))
\*  8  var d = makeCounter();
VarD == Var(Identifier("d", 8), CallOf("makeCounter", <<>>, 8))
\*  9  print d();
PrintD == PrintStmt(CallOf("d", <<>>, 9))

\* 10  var x = "global";
VarX == Var(Identifier("x", 10), StringLiteral("global", 10))
\* 11  fun show(p, q) { print x; print p; print q; }
DeclareShow ==
    FunctionDecl(Identifier("show", 11), <<Identifier("p", 11), Identifier("q", 11)>>,
        << PrintStmt(Name("x", 11)), PrintStmt(Name("p", 11)), PrintStmt(Name("q", 11)) >>)
\* 12  { var x = "local"; show(x + "!", 2); }
BlockShow ==
    Block(<< Var(Identifier("x", 12), StringLiteral("local", 12)),
             Expression(CallOf("show",
                 << Binary(Name("x", 12), Operator("Plus", "+", 12), StringLiteral("!", 12)),
                    NumberLiteral(2, 12) >>,
                 12)) >>)
\* 13  fun peek() { print y; }
DeclarePeek == FunctionDecl(Identifier("peek", 13), <<>>, << PrintStmt(Name("y", 13)) >>)
\* 14  { var y = "hidden"; peek(); }
BlockPeek ==
    Block(<< Var(Identifier("y", 14), StringLiteral("hidden", 14)),
             Expression(CallOf("peek", <<>>, 14)) >>)
\* 15  { var t = 1; print missing; }
BlockMissing ==
    Block(<< Var(Identifier("t", 15), NumberLiteral(1, 15)),
             PrintStmt(Name("missing", 15)) >>)

\* 16  fun early(flag) {
\* 17    if (flag) { return 1; }
\* 18    print "after";
\* 19    return 2;
\* 20  }
DeclareEarly ==
    FunctionDecl(Identifier("early", 16), <<Identifier("flag", 16)>>,
        << IfElse(Name("flag", 17), Block(<< ReturnOf(NumberLiteral(1, 17), 17) >>), NoNode),
           PrintStmt(StringLiteral("after", 18)),
           ReturnOf(NumberLiteral(2, 19), 19) >>)
\* 21  print early(true);
PrintEarly ==
    PrintStmt(CallOf("early", << Literal(Operator("True", "true", 21)) >>, 21))

\* 22  fun pick(flag) { if (flag) return 1; print "after"; }
DeclarePick ==
    FunctionDecl(Identifier("pick", 22), <<Identifier("flag", 22)>>,
        << IfElse(Name("flag", 22), ReturnOf(NumberLiteral(1, 22), 22), NoNode),
           PrintStmt(StringLiteral("after", 22)) >>)
\* 23  print pick(true);
PrintPickTrue ==
    PrintStmt(CallOf("pick", << Literal(Operator("True", "true", 23)) >>, 23))
\* 24  print pick(false);
PrintPickFalse ==
    PrintStmt(CallOf("pick", << Literal(Operator("False", "false", 24)) >>, 24))

\* 25  fun loop() {
\* 26    var n = 0;
\* 27    while (n < 2) return n = n + 1;
\* 28    return 99;
\* 29  }
DeclareLoop ==
    FunctionDecl(Identifier("loop", 25), <<>>,
        << Var(Identifier("n", 26), NumberLiteral(0, 26)),
           WhileLoop(Binary(Name("n", 27), Operator("Less", "<", 27), NumberLiteral(2, 27)),
               ReturnOf(Assign(Identifier("n", 27),
                   Binary(Name("n", 27), Operator("Plus", "+", 27), NumberLiteral(1, 27))), 27)),
           ReturnOf(NumberLiteral(99, 28), 28) >>)
\* 30  print loop();
PrintLoop == PrintStmt(CallOf("loop", <<>>, 30))

\* 31  fun count() { var k = 0; while (k < 2) k = k + 1; return k; }
DeclareCount ==
    FunctionDecl(Identifier("count", 31), <<>>,
        << Var(Identifier("k", 31), NumberLiteral(0, 31)),
           WhileLoop(Binary(Name("k", 31), Operator("Less", "<", 31), NumberLiteral(2, 31)),
               Expression(Assign(Identifier("k", 31),
                   Binary(Name("k", 31), Operator("Plus", "+", 31), NumberLiteral(1, 31))))),
           ReturnOf(Name("k", 31), 31) >>)
\* 32  print count();
PrintCount == PrintStmt(CallOf("count", <<>>, 32))

\* 33  { fun local() { return; } }
BlockLocal ==
    Block(<< FunctionDecl(Identifier("local", 33), <<>>,
                 << ReturnOf(Literal(Operator("Nil", "nil", 33)), 33) >>) >>)
\* 34  print local();
PrintLocal == PrintStmt(CallOf("local", <<>>, 34))

\* 35  class Box {}
DeclareBox == ClassDecl(Identifier("Box", 35), NoNode, <<>>)
\* 36  var o = Box();
VarO == Var(Identifier("o", 36), CallOf("Box", <<>>, 36))
\* 37  o.f = 1;
SetField == Expression(Set(Name("o", 37), Identifier("f", 37), NumberLiteral(1, 37)))
\* 38  print o.f;
PrintField == PrintStmt(Get(Name("o", 38), Identifier("f", 38)))

\* 39  class Base { m() {} n() {} }
DeclareBase ==
    ClassDecl(Identifier("Base", 39), NoNode,
        << FunctionDecl(Identifier("m", 39), <<>>, <<>>),
           FunctionDecl(Identifier("n", 39), <<>>, <<>>) >>)
\* 40  class Derived < Base { m() {} }
DeclareDerived ==
    ClassDecl(Identifier("Derived", 40), Name("Base", 40),
        << FunctionDecl(Identifier("m", 40), <<>>, <<>>) >>)
\* 41  class Self < Self {}
DeclareSelf == ClassDecl(Identifier("Self", 41), Name("Self", 41), <<>>)
\* 42  var Base = 1;
VarBase == Var(Identifier("Base", 42), NumberLiteral(1, 42))

\* 43  fun say(s) { print s; }
DeclareSay ==
    FunctionDecl(Identifier("say", 43), <<Identifier("s", 43)>>,
        << PrintStmt(Name("s", 43)) >>)
\* 44  fun two(p, q) { print "body"; }
DeclareTwo ==
    FunctionDecl(Identifier("two", 44), <<Identifier("p", 44), Identifier("q", 44)>>,
        << PrintStmt(StringLiteral("body", 44)) >>)
\* 45  say("c")(say("a1"), say("a2"));
CallNotFunction ==
    Expression(Call(CallOf("say", << StringLiteral("c", 45) >>, 45),
                    Operator("RightParen", ")", 45),
                    << CallOf("say", << StringLiteral("a1", 45) >>, 45),
                       CallOf("say", << StringLiteral("a2", 45) >>, 45) >>))
\* 46  two(say("a1"));
CallTooFew == Expression(CallOf("two", << CallOf("say", << StringLiteral("a1", 46) >>, 46) >>, 46))
\* 47  two(1, 2, say("a3"));
CallTooMany ==
    Expression(CallOf("two", << NumberLiteral(1, 47), NumberLiteral(2, 47),
                                CallOf("say", << StringLiteral("a3", 47) >>, 47) >>, 47))
\* 48  clock(1);
CallClock == Expression(CallOf("clock", << NumberLiteral(1, 48) >>, 48))
\* 49  two(say("a1"), say("a2"));
CallTwo ==
    Expression(CallOf("two", << CallOf("say", << StringLiteral("a1", 49) >>, 49),
                                CallOf("say", << StringLiteral("a2", 49) >>, 49) >>, 49))

\* 50  var t = clock();
VarT == Var(Identifier("t", 50), CallOf("clock", <<>>, 50))

Statements ==
    << DeclareMakeCounter, VarC, PrintC, VarD, PrintD,
       VarX, DeclareShow, BlockShow, DeclarePeek, BlockPeek, BlockMissing,
       DeclareEarly, PrintEarly, DeclarePick, PrintPickTrue, PrintPickFalse,
       DeclareLoop, PrintLoop, DeclareCount, PrintCount,
       BlockLocal, PrintLocal,
       DeclareBox, VarO, SetField, PrintField,
       DeclareBase, DeclareDerived, DeclareSelf, VarBase,
       DeclareSay, DeclareTwo, CallNotFunction, CallTooFew, CallTooMany, CallClock,
       CallTwo, VarT >>

\* the programs interpreted are the sequences of at most MaxSteps statements
\* drawn, in any order and with repetition, from one of these families
Families ==
    << << DeclareMakeCounter, VarC, PrintC, VarD, PrintD >>,
       << VarX, DeclareShow, BlockShow, DeclarePeek, BlockPeek, BlockMissing,
          DeclarePick, PrintPickTrue >>,
       << DeclareEarly, PrintEarly, DeclarePick, PrintPickTrue, PrintPickFalse,
          DeclareLoop, PrintLoop, DeclareCount, PrintCount >>,
       << BlockLocal, PrintLocal, DeclareBox, VarO, SetField, PrintField,
          DeclarePick, PrintPickTrue >>,
       << DeclareBase, DeclareDerived, DeclareSelf, VarBase, DeclarePick, PrintPickTrue >>,
       << DeclareSay, DeclareTwo, CallNotFunction, CallTooFew, CallTooMany, CallClock,
          CallTwo, VarT >> >>

\* the statement is one of the family
InFamily(f, stmt) == \E j \in 1..Len(Families[f]) : Families[f][j] = stmt

\* the readings of the system clock
ClockReadings == {1000}

----------------------------------------------------------------------------
(* The interpreter as a state machine *)

\* Interpreter::new(None): globals holds clock, the active Environment is a
\* child of globals
Init ==
    /\ envs = << [enclosing |-> 0,
                  values |-> Insert(EmptyMap, "clock", NativeFunction("clock"))],
                 NewEnvironment(globals) >>
    /\ environment = 2
    /\ output = <<>>
    /\ status = "running"
    /\ error = NoError
    /\ log = <<>>
    /\ last = [op |-> "new"]
    /\ program = <<>>
    /\ steps = 0

\* the Interpreter a statement is executed by
Interpreter(now) ==
    [envs |-> envs, environment |-> environment, output |-> output, log |-> <<>>,
     now |-> now]

\* an interpret that goes on with the next statement after an InterpretError
interpret_status_lenient(r) == IF r.tag = "panic" THEN "panic" ELSE "running"

\* the ? of Interpreter::interpret: the loop goes on after Ok and is left with
\* the error after Err; a panic ends the process
interpret_status(r) ==
    CASE r.tag = "ok" -> "running"
      [] r.tag = "err" -> "error"
      [] OTHER -> "panic"

\* Interpreter::interpret, with statement s executed: an InterpretError or a
\* panic ends interpret
Interpreted(s, r) ==
    /\ Len(r.I.envs) <= MaxEnvs
    /\ envs' = r.I.envs
    /\ environment' = r.I.environment
    /\ output' = r.I.output
    /\ log' = r.I.log
    /\ status' = interpret_status(r)
    /\ error' = r.err
    /\ last' = [op |-> "execute"]
    /\ program' = Append(program, s)
    /\ steps' = steps + 1

\* one iteration of the loop of Interpreter::interpret: the next statement of
\* the program is executed
Interpret ==
    /\ status = "running"
    /\ steps < MaxSteps
    /\ \E s \in 1..Len(Statements), now \in ClockReadings :
         /\ \E f \in 1..Len(Families) :
               /\ InFamily(f, Statements[s])
               /\ \A j \in 1..Len(program) : InFamily(f, Statements[program[j]])
         /\ Interpreted(s, execute(Interpreter(now), Statements[s]))

\* Interpreter::interpret returns Ok(None) at the end of the program
Finish ==
    /\ status = "running"
    /\ status' = "done"
    /\ last' = [op |-> "finish"]
    /\ UNCHANGED <<envs, environment, output, error, log, program, steps>>

Next == Interpret \/ Finish

Spec == Init /\ [][Next]_vars

----------------------------------------------------------------------------
(* The Environment driven directly: the scope chain is built and left the  *)
(* way blocks do it, and define, assign and get are called on the active   *)
(* Environment with names, values and lines drawn from small sets.         *)

Names == {"a", "b"}
Lines == {1, 2}
Values == << Nil, Number(1), Number(2) >>

\* Interpreter::visit_block and execute_block, entering: a child of the
\* active Environment becomes the active one
EnterScope ==
    /\ steps < MaxSteps
    /\ Len(envs) < MaxEnvs
    /\ envs' = Append(envs, NewEnvironment(environment))
    /\ environment' = Len(envs) + 1
    /\ last' = [op |-> "enter"]
    /\ steps' = steps + 1
    /\ UNCHANGED <<output, status, error, log, program>>

\* Interpreter::execute_block, leaving on normal completion: the Environment
\* active before the block is active again
LeaveScope ==
    /\ steps < MaxSteps
    /\ envs[environment].enclosing # globals
    /\ environment' = envs[environment].enclosing
    /\ last' = [op |-> "leave"]
    /\ steps' = steps + 1
    /\ UNCHANGED <<envs, output, status, error, log, program>>

\* Environment::define on the active Environment
Define ==
    /\ steps < MaxSteps
    /\ \E name \in Names, i \in 1..Len(Values) :
         /\ envs' = define(envs, environment, name, Values[i])
         /\ last' = [op |-> "define", name |-> name, value |-> Values[i],
                     was |-> IF name \in DOMAIN envs[environment].values
                             THEN envs[environment].values[name] ELSE None]
    /\ steps' = steps + 1
    /\ UNCHANGED <<environment, output, status, error, log, program>>

\* Environment::assign on the active Environment
AssignName ==
    /\ steps < MaxSteps
    /\ \E name \in Names, line \in Lines, i \in 1..Len(Values) :
         LET r == assign(envs, environment, Identifier(name, line), Values[i])
         IN /\ envs' = r.h
            /\ last' = [op |-> "assign", token |-> Identifier(name, line),
                        value |-> Values[i], ok |-> r.ok, err |-> r.err]
    /\ steps' = steps + 1
    /\ UNCHANGED <<environment, output, status, error, log, program>>

\* Environment::get on the active Environment
GetName ==
    /\ steps < MaxSteps
    /\ \E name \in Names, line \in Lines :
         LET r == get(envs, environment, Identifier(name, line))
         IN last' = [op |-> "get", token |-> Identifier(name, line),
                     ok |-> r.ok, val |-> r.val, err |-> r.err]
    /\ steps' = steps + 1
    /\ UNCHANGED <<envs, environment, output, status, error, log, program>>

NextEnv == EnterScope \/ LeaveScope \/ Define \/ AssignName \/ GetName

SpecEnv == Init /\ [][NextEnv]_vars

----------------------------------------------------------------------------
(* The Instance driven directly: an Instance of one of three classes on a   *)
(* superclass chain is made by Class::call, and Instance::set and           *)
(* Instance::get are called on it.                                          *)

\* the method called name, as visit_class builds it for the class of that name
Method(class_name, name) ==
    Function(Identifier(class_name, 1), 0,
             FunctionDecl(Identifier(name, 1), <<>>, <<>>), globals)

\* class Base { m() {} n() {} }
Base == Class("Base", None, [x \in {"m", "n"} |-> Method("Base", x)])
\* class Derived < Base { m() {} }
Derived == Class("Derived", Base, [x \in {"m"} |-> Method("Derived", x)])
\* class Leaf < Derived {}
Leaf == Class("Leaf", Derived, EmptyMap)

Classes == << Base, Derived, Leaf >>
Properties == {"f", "m", "n", "z"}

\* Class::call
InstanceNew ==
    /\ steps < MaxSteps
    /\ \E i \in 1..Len(Classes) :
         LET r == class_call(Interpreter(0), Classes[i])
         IN last' = [op |-> "call", instance |-> r.val]
    /\ steps' = steps + 1
    /\ UNCHANGED <<envs, environment, output, status, error, log, program>>

\* Instance::set on the Instance
InstanceSet ==
    /\ steps < MaxSteps
    /\ last.op \in {"call", "set", "property"}
    /\ \E name \in Properties, line \in Lines, i \in 1..Len(Values) :
         last' = [op |-> "set", token |-> Identifier(name, line), value |-> Values[i],
                  instance |-> instance_set(last.instance, Identifier(name, line), Values[i])]
    /\ steps' = steps + 1
    /\ UNCHANGED <<envs, environment, output, status, error, log, program>>

\* Instance::get on the Instance
InstanceGet ==
    /\ steps < MaxSteps
    /\ last.op \in {"call", "set", "property"}
    /\ \E name \in Properties, line \in Lines :
         LET r == instance_get(Interpreter(0), last.instance, Identifier(name, line))
         IN last' = [op |-> "property", token |-> Identifier(name, line),
                     instance |-> last.instance, tag |-> r.tag, val |-> r.val,
                     err |-> r.err]
    /\ steps' = steps + 1
    /\ UNCHANGED <<envs, environment, output, status, error, log, program>>

NextInstance == InstanceNew \/ InstanceSet \/ InstanceGet

SpecInstance == Init /\ [][NextInstance]_vars

----------------------------------------------------------------------------
(* The operators driven directly: the variables a and b of the active      *)
(* Environment are defined to values of every kind, and a binary           *)
(* expression, a unary expression or an if statement over them is          *)
(* evaluated.                                                              *)

Operands ==
    << Nil, Boolean(TRUE), Boolean(FALSE),
       Number(0), Number(1), Number(2), Number(0 - 4),
       String(""), String("a"),
       Method("Base", "m"), NativeFunction("clock"), Base, Instance(Base) >>

BinaryOperators ==
    << Operator("Minus", "-", 1), Operator("Slash", "/", 1), Operator("Star", "*", 1),
       Operator("Plus", "+", 1), Operator("Greater", ">", 1),
       Operator("GreaterEqual", ">=", 1), Operator("Less", "<", 1),
       Operator("LessEqual", "<=", 1), Operator("EqualEqual", "==", 1),
       Operator("BangEqual", "!=", 1) >>

UnaryOperators == << Operator("Bang", "!", 1), Operator("Minus", "-", 1) >>

\* if (a) print "then"; else print "else";
IfA ==
    IfElse(Name("a", 1), PrintStmt(StringLiteral("then", 1)),
           PrintStmt(StringLiteral("else", 1)))

\* Environment::define of a or b to one of the operands
DefineOperand ==
    /\ steps < MaxSteps
    /\ \E name \in {"a", "b"}, i \in 1..Len(Operands) :
         envs' = define(envs, environment, name, Operands[i])
    /\ last' = [op |-> "operand"]
    /\ steps' = steps + 1
    /\ UNCHANGED <<environment, output, status, error, log, program>>

\* the outcome of Interpreter::evaluate on the expression
Evaluated(expr, r) ==
    /\ last' = [op |-> "evaluate", expr |-> expr, tag |-> r.tag, val |-> r.val,
                err |-> r.err]
    /\ steps' = steps + 1
    /\ UNCHANGED <<envs, environment, output, status, error, log, program>>

\* Interpreter::evaluate of a <operator> b
EvaluateBinary ==
    /\ steps < MaxSteps
    /\ \E i \in 1..Len(BinaryOperators) :
         Evaluated(Binary(Name("a", 1), BinaryOperators[i], Name("b", 1)),
                   evaluate(Interpreter(0),
                            Binary(Name("a", 1), BinaryOperators[i], Name("b", 1))))

\* Interpreter::evaluate of <operator> a
EvaluateUnary ==
    /\ steps < MaxSteps
    /\ \E i \in 1..Len(UnaryOperators) :
         Evaluated(Unary(UnaryOperators[i], Name("a", 1)),
                   evaluate(Interpreter(0), Unary(UnaryOperators[i], Name("a", 1))))

\* the outcome of Interpreter::execute on the if statement
Executed_If(r) ==
    /\ last' = [op |-> "if", tag |-> r.tag, err |-> r.err]
    /\ output' = r.I.output
    /\ steps' = steps + 1
    /\ UNCHANGED <<envs, environment, status, error, log, program>>

\* Interpreter::execute of if (a) print "then"; else print "else";
ExecuteIf ==
    /\ steps < MaxSteps
    /\ Executed_If(execute(Interpreter(0), IfA))

NextOps == DefineOperand \/ EvaluateBinary \/ EvaluateUnary \/ ExecuteIf

SpecOps == Init /\ [][NextOps]_vars

----------------------------------------------------------------------------
(* The Lexer (lexer/lexer.rs).  The source is a sequence of characters,    *)
(* each a string of length one; start and current count characters from 0  *)
(* as the code does.  A slice index out of bounds aborts the process: the  *)
(* Lexer then carries tag "panic".                                         *)

LexError(msg, line) == [kind |-> "LexError", msg |-> msg, line |-> line]

\* '\0', which peek and peek_next return at the end of the source
NUL == "\\0"

\* char::is_digit(10)
Digits == {"0", "1", "2", "3", "4", "5", "6", "7", "8", "9"}

\* char::is_ascii_alphabetic
Letters ==
    {"a", "b", "c", "d", "e", "f", "g", "h", "i", "j", "k", "l", "m", "n", "o", "p",
     "q", "r", "s", "t", "u", "v", "w", "x", "y", "z",
     "A", "B", "C", "D", "E", "F", "G", "H", "I", "J", "K", "L", "M", "N", "O", "P",
     "Q", "R", "S", "T", "U", "V", "W", "X", "Y", "Z"}

\* the keywords of Lexer::new
keywords ==
    ("and" :> "And") @@ ("class" :> "Class") @@ ("else" :> "Else")
    @@ ("false" :> "False") @@ ("for" :> "For") @@ ("fun" :> "Fun") @@ ("if" :> "If")
    @@ ("nil" :> "Nil") @@ ("or" :> "Or") @@ ("print" :> "Print")
    @@ ("return" :> "Return") @@ ("super" :> "Super") @@ ("this" :> "This")
    @@ ("true" :> "True") @@ ("var" :> "Var") @@ ("while" :> "While")

\* Lexer::new
Lexer(source_code) ==
    [source_code |-> source_code, tokens |-> <<>>, start |-> 0, current |-> 0,
     line |-> 1, errors |-> <<>>, tag |-> "ok"]

\* the String collected from a sequence of characters
RECURSIVE Collect(_)
Collect(chars) == IF chars = <<>> THEN "" ELSE Head(chars) \o Collect(Tail(chars))

\* source_code[from..to] collected
Slice(L, from, to) == Collect(SubSeq(L.source_code, from + 1, to))

\* Lexer::is_alpha
is_alpha(c) == c \in Letters \/ c = "_"

\* Lexer::is_alphanumeric
is_alphanumeric(c) == is_alpha(c) \/ c \in Digits

\* Lexer::is_at_end
lexer_is_at_end(L) == L.current >= Len(L.source_code)

\* Lexer::peek
lexer_peek(L) == IF lexer_is_at_end(L) THEN NUL ELSE L.source_code[L.current + 1]

\* Lexer::peek_next
peek_next(L) ==
    IF L.current + 1 >= Len(L.source_code) THEN NUL ELSE L.source_code[L.current + 2]

\* Lexer::advance: current moves on and source_code[current - 1] is read,
\* which is out of bounds when current was at the end
lexer_advance(L) ==
    IF L.current < Len(L.source_code)
    THEN [L EXCEPT !.current = @ + 1]
    ELSE [L EXCEPT !.current = @ + 1, !.tag = "panic"]

\* Lexer::match_next: the Lexer after the call, and the bool returned
lexer_match_next(L, expected_next) ==
    IF lexer_is_at_end(L) THEN [L |-> L, matched |-> FALSE]
    ELSE IF L.source_code[L.current + 1] # expected_next THEN [L |-> L, matched |-> FALSE]
    ELSE [L |-> lexer_advance(L), matched |-> TRUE]

\* Lexer::add_token
add_token(L, token_type, literal) ==
    [L EXCEPT !.tokens = Append(@, Token(token_type, Slice(L, L.start, L.current),
                                         literal, L.line))]

\* the while loop of Lexer::identifier
RECURSIVE identifier_characters(_)
identifier_characters(L) ==
    IF is_alphanumeric(lexer_peek(L)) THEN identifier_characters(lexer_advance(L)) ELSE L

\* Lexer::identifier after its loop: a keyword or an Identifier
identifier_token(L, identifier_text) ==
    IF identifier_text \in DOMAIN keywords
    THEN add_token(L, keywords[identifier_text], None)
    ELSE add_token(L, "Identifier", None)

\* the text of the lexeme being scanned, source_code[start..current]
lexeme_text(L) == Slice(L, L.start, L.current)

\* Lexer::identifier
identifier(L) ==
    identifier_token(identifier_characters(L), lexeme_text(identifier_characters(L)))

\* the while loop of Lexer::string_literal
RECURSIVE string_characters(_)
string_characters(L) ==
    IF lexer_peek(L) # "\"" /\ lexer_peek(L) # NUL
    THEN string_characters(lexer_advance(IF lexer_peek(L) = "\n"
                                         THEN [L EXCEPT !.line = @ + 1] ELSE L))
    ELSE L

\* Lexer::string_literal after its loop, next_char being what peek returns:
\* the error of an unterminated literal is pushed and advance is called
\* either way
string_unterminated(L) ==
    IF lexer_peek(L) = NUL
    THEN [L EXCEPT !.errors = Append(@, LexError("Unterminated String", L.line))]
    ELSE L

\* Lexer::string_literal after the closing advance
string_token(L) ==
    IF L.tag = "panic" THEN L
    ELSE add_token(L, "String", StringType(Slice(L, L.start + 1, L.current - 1)))

\* Lexer::string_literal
string_literal(L) == string_token(lexer_advance(string_unterminated(string_characters(L))))

\* the digit a character stands for
DigitValue(c) == CHOOSE d \in 0..9 : ToString(d) = c

\* the whole number a sequence of digits stands for
RECURSIVE DigitsValue(_, _)
DigitsValue(chars, acc) ==
    IF chars = <<>> THEN acc
    ELSE DigitsValue(Tail(chars), acc * 10 + DigitValue(Head(chars)))

RECURSIVE Power10(_)
Power10(k) == IF k = 0 THEN 1 ELSE 10 * Power10(k - 1)

\* str::parse::<f32> of digits with at most one point among them
parse_f32(chars) ==
    LET point == {i \in 1..Len(chars) : chars[i] = "."}
        places == IF point = {} THEN 0 ELSE Len(chars) - (CHOOSE i \in point : TRUE)
        parsed == Quotient(DigitsValue(SelectSeq(chars, LAMBDA c : c # "."), 0),
                           Power10(places))
    IN [NumberType(parsed.num) EXCEPT !.den = parsed.den]

\* the while loops of Lexer::number_literal
RECURSIVE number_digits(_)
number_digits(L) ==
    IF lexer_peek(L) \in Digits THEN number_digits(lexer_advance(L)) ELSE L

\* the decimals of Lexer::number_literal
number_decimals(L) ==
    IF lexer_peek(L) = "." /\ peek_next(L) \in Digits
    THEN number_digits(lexer_advance(L))
    ELSE L

\* Lexer::number_literal after its loops
number_token(L) ==
    add_token(L, "Number", parse_f32(SubSeq(L.source_code, L.start + 1, L.current)))

\* Lexer::number_literal
number_literal(L) == number_token(number_decimals(number_digits(L)))

\* the while loop of a comment in Lexer::scan_token
RECURSIVE comment_characters(_)
comment_characters(L) ==
    IF lexer_peek(L) # "\n" /\ lexer_peek(L) # NUL
    THEN comment_characters(lexer_advance(L))
    ELSE L

\* a token of one or two characters in Lexer::scan_token
one_or_two(m, two, one) ==
    IF m.matched THEN add_token(m.L, two, None) ELSE add_token(m.L, one, None)

\* '/' in Lexer::scan_token
slash_or_comment(m) ==
    IF m.matched THEN comment_characters(m.L) ELSE add_token(m.L, "Slash", None)

\* Lexer::scan_token: c is the character advance returned, L the Lexer after
\* advance
scan_character(L, c) ==
    CASE c = "\n" -> [L EXCEPT !.line = @ + 1]
      [] c = "(" -> add_token(L, "LeftParen", None)
      [] c = ")" -> add_token(L, "RightParen", None)
      [] c = "{" -> add_token(L, "LeftBrace", None)
      [] c = "}" -> add_token(L, "RightBrace", None)
      [] c = "." -> add_token(L, "Dot", None)
      [] c = "," -> add_token(L, "Comma", None)
      [] c = "+" -> add_token(L, "Plus", None)
      [] c = "-" -> add_token(L, "Minus", None)
      [] c = "*" -> add_token(L, "Star", None)
      [] c = ";" -> add_token(L, "SemiColon", None)
      [] c = "!" -> one_or_two(lexer_match_next(L, "="), "BangEqual", "Bang")
      [] c = "=" -> one_or_two(lexer_match_next(L, "="), "EqualEqual", "Equal")
      [] c = "<" -> one_or_two(lexer_match_next(L, "="), "LessEqual", "Less")
      [] c = ">" -> one_or_two(lexer_match_next(L, "="), "GreaterEqual", "Greater")
      [] c = "/" -> slash_or_comment(lexer_match_next(L, "/"))
      [] c = "\"" -> string_literal(L)
      [] OTHER ->
            IF c \in Digits THEN number_literal(L)
            ELSE IF is_alpha(c) THEN identifier(L)
            ELSE [L EXCEPT !.errors = Append(@, LexError("Unexpected Token", L.line))]

\* Lexer::scan_token
scan_token(L) == scan_character(lexer_advance(L), L.source_code[L.current + 1])

\* the while loop of Lexer::scan; a panic ends it
RECURSIVE scan_tokens(_)
scan_tokens(L) ==
    IF L.tag = "panic" \/ lexer_is_at_end(L) THEN L
    ELSE scan_tokens(scan_token([L EXCEPT !.start = L.current]))

\* the end of Lexer::scan: the EOF token is pushed
scan_end(L) ==
    IF L.tag = "panic" THEN L
    ELSE [L EXCEPT !.tokens = Append(@, Token("EOF", "", None, L.line))]

\* Lexer::scan
scan(L) == scan_end(scan_tokens(L))

----------------------------------------------------------------------------
(* The Parser (parser/parser.rs).  current counts tokens from 0 as the     *)
(* code does.  A parsing function yields the Parser after the call, the    *)
(* tag "ok" with the node parsed, the tag "err" of a ParseError pushed, or *)
(* the tag "panic" when the process aborted.                               *)
(* The backquotes of the messages are written as single quotes.           *)

ParseError(msg, line) == [kind |-> "ParseError", msg |-> msg, line |-> line]

\* Parser::new
Parser(tokens) == [tokens |-> tokens, current |-> 0, statements |-> <<>>, errors |-> <<>>]

\* Result<_, Error> of a parsing function
ParseOk(P, val) == [P |-> P, tag |-> "ok", val |-> val]

\* Parser::peek
parser_peek(P) == P.tokens[P.current + 1]

\* Parser::is_at_end
parser_is_at_end(P) == parser_peek(P).token_type = "EOF"

\* Parser::previous, tokens[current - 1], where current > 0
previous(P) == P.tokens[P.current]

\* Parser::check
check(P, token_type) == ~parser_is_at_end(P) /\ parser_peek(P).token_type = token_type

\* Parser::advance: the Parser after the call (the token returned is
\* previous of it)
parser_advance(P) == IF ~parser_is_at_end(P) THEN [P EXCEPT !.current = @ + 1] ELSE P

\* Parser::match_next: whether the current token is of one of the types; the
\* Parser then advances
matches(P, next_token_types) == \E token_type \in next_token_types : check(P, token_type)

\* Parser::push_error: the line is that of previous(), and tokens[current - 1]
\* aborts the process when current is 0
push_error(P, error_message) ==
    IF P.current = 0 THEN [P |-> P, tag |-> "panic", val |-> NoNode]
    ELSE [P |-> [P EXCEPT !.errors = Append(@, ParseError(error_message, previous(P).line))],
          tag |-> "err", val |-> NoNode]

\* Parser::consume: the token consumed is the val of the result
consume(P, token_type, message) ==
    IF check(P, token_type) THEN ParseOk(parser_advance(P), parser_peek(P))
    ELSE push_error(P, message)

RECURSIVE expression(_), assignment(_), unary(_), call_arguments(_, _), call_rest(_),
          comparison_rest(_), equality_rest(_)

\* .unwrap() on the consume of the closing parenthesis in Parser::primary
grouping_closed(closed, expr) ==
    IF closed.tag = "ok" THEN ParseOk(closed.P, Grouping(expr))
    ELSE [closed EXCEPT !.tag = "panic"]

\* Parser::primary after "(": the expression and the closing parenthesis
grouping_close(expr) ==
    IF expr.tag # "ok" THEN expr
    ELSE grouping_closed(consume(expr.P, "RightParen", "Expect ')' after expresion."),
                         expr.val)

\* Parser::primary
primary(P) ==
    IF matches(P, {"Nil", "True", "False", "String", "Number"})
    THEN ParseOk(parser_advance(P), Literal(parser_peek(P)))
    ELSE IF matches(P, {"Identifier"})
    THEN ParseOk(parser_advance(P), Variable(parser_peek(P)))
    ELSE IF matches(P, {"LeftParen"})
    THEN grouping_close(expression(parser_advance(P)))
    ELSE push_error(P, "Unexpected Token")

\* the most arguments of a call and parameters of a function without a
\* ParseError
MaxArguments == 255

\* Parser::finish_call: the advisory error of a long argument list
too_many_arguments(P, arguments) ==
    IF Len(arguments) >= MaxArguments
    THEN push_error(P, "Too many arguments. (A function can have at max 255 arguments)").P
    ELSE P

\* an iteration of the loop of Parser::finish_call, with the argument parsed
call_argument(argument, arguments) ==
    IF argument.tag # "ok" THEN argument
    ELSE IF matches(argument.P, {"Comma"})
    THEN call_arguments(parser_advance(argument.P), Append(arguments, argument.val))
    ELSE ParseOk(argument.P, Append(arguments, argument.val))

\* the loop of Parser::finish_call
call_arguments(P, arguments) ==
    call_argument(expression(too_many_arguments(P, arguments)), arguments)

\* the end of Parser::finish_call, with the closing parenthesis consumed
call_closed(closing_paren, callee, arguments) ==
    IF closing_paren.tag # "ok" THEN closing_paren
    ELSE ParseOk(closing_paren.P, Call(callee, closing_paren.val, arguments))

\* Parser::finish_call after its loop
call_close(arguments, callee) ==
    IF arguments.tag # "ok" THEN arguments
    ELSE call_closed(consume(arguments.P, "RightParen", "Expected ')' after arguments"),
                     callee, arguments.val)

\* Parser::finish_call
finish_call(P, callee) ==
    IF ~check(P, "RightParen") THEN call_close(call_arguments(P, <<>>), callee)
    ELSE call_close(ParseOk(P, <<>>), callee)

\* the loop of Parser::call
call_rest(expr) ==
    IF expr.tag # "ok" THEN expr
    ELSE IF matches(expr.P, {"LeftParen"})
    THEN call_rest(finish_call(parser_advance(expr.P), expr.val))
    ELSE expr

\* Parser::call
call(P) == call_rest(primary(P))

\* Expr::unary with the operand parsed
unary_node(operator, right) ==
    IF right.tag # "ok" THEN right ELSE ParseOk(right.P, Unary(operator, right.val))

\* Parser::unary
unary(P) ==
    IF matches(P, {"Bang", "Minus"})
    THEN unary_node(parser_peek(P), unary(parser_advance(P)))
    ELSE call(P)

\* Expr::binary with the right operand parsed
binary_node(left, operator, right) ==
    IF right.tag # "ok" THEN right ELSE ParseOk(right.P, Binary(left, operator, right.val))

\* Parser::factor after its first operand: at most one operator
factor_rest(expr) ==
    IF expr.tag # "ok" THEN expr
    ELSE IF matches(expr.P, {"Slash", "Star"})
    THEN binary_node(expr.val, parser_peek(expr.P), unary(parser_advance(expr.P)))
    ELSE expr

\* Parser::factor
factor(P) == factor_rest(unary(P))

\* Parser::term after its first operand: at most one operator
term_rest(expr) ==
    IF expr.tag # "ok" THEN expr
    ELSE IF matches(expr.P, {"Minus", "Plus"})
    THEN binary_node(expr.val, parser_peek(expr.P), factor(parser_advance(expr.P)))
    ELSE expr

\* Parser::term
term(P) == term_rest(factor(P))

\* the while loop of Parser::comparison
comparison_rest(expr) ==
    IF expr.tag # "ok" THEN expr
    ELSE IF matches(expr.P, {"Greater", "GreaterEqual", "Less", "LessEqual"})
    THEN comparison_rest(binary_node(expr.val, parser_peek(expr.P),
                                     term(parser_advance(expr.P))))
    ELSE expr

\* Parser::comparison
comparison(P) == comparison_rest(term(P))

\* the while loop of Parser::equality
equality_rest(expr) ==
    IF expr.tag # "ok" THEN expr
    ELSE IF matches(expr.P, {"BangEqual", "EqualEqual"})
    THEN equality_rest(binary_node(expr.val, parser_peek(expr.P),
                                   comparison(parser_advance(expr.P))))
    ELSE expr

\* Parser::equality
equality(P) == equality_rest(comparison(P))

\* Expr::logical with the right operand parsed
logical_node(left, operator, right) ==
    IF right.tag # "ok" THEN right ELSE ParseOk(right.P, Logical(left, operator, right.val))

\* Parser::logic_and after its first operand: at most one operator
logic_and_rest(left_expr) ==
    IF left_expr.tag # "ok" THEN left_expr
    ELSE IF matches(left_expr.P, {"And"})
    THEN logical_node(left_expr.val, parser_peek(left_expr.P),
                      equality(parser_advance(left_expr.P)))
    ELSE left_expr

\* Parser::logic_and
logic_and(P) == logic_and_rest(equality(P))

\* Parser::logic_or after its first operand: at most one operator
logic_or_rest(left_expr) ==
    IF left_expr.tag # "ok" THEN left_expr
    ELSE IF matches(left_expr.P, {"Or"})
    THEN logical_node(left_expr.val, parser_peek(left_expr.P),
                      logic_and(parser_advance(left_expr.P)))
    ELSE left_expr

\* Parser::logic_or
logic_or(P) == logic_or_rest(logic_and(P))

\* Parser::assignment with the right side parsed: only a Variable is a target
assign_node(left_side_identifier, right_side_expr) ==
    IF right_side_expr.tag # "ok" THEN right_side_expr
    ELSE IF left_side_identifier.node = "Variable"
    THEN ParseOk(right_side_expr.P, Assign(left_side_identifier.name, right_side_expr.val))
    ELSE push_error(right_side_expr.P, "Invalid assignment target")

\* Parser::assignment after its left side
assignment_rest(left_side_identifier) ==
    IF left_side_identifier.tag # "ok" THEN left_side_identifier
    ELSE IF matches(left_side_identifier.P, {"Equal"})
    THEN assign_node(left_side_identifier.val,
                     assignment(parser_advance(left_side_identifier.P)))
    ELSE left_side_identifier

\* Parser::assignment
assignment(P) == assignment_rest(logic_or(P))

\* Parser::expression
expression(P) == assignment(P)

RECURSIVE declaration(_), statement(_), block_statements(_, _), parameters(_, _),
          synchronize(_), parse_declarations(_)

\* the ? on a consume that follows a node parsed: the node is kept
consumed_after(consumed, val) ==
    IF consumed.tag # "ok" THEN consumed ELSE ParseOk(consumed.P, val)

\* a node parsed and then the consume of the token that has to follow it
followed_by(parsed, token_type, message) ==
    IF parsed.tag # "ok" THEN parsed
    ELSE consumed_after(consume(parsed.P, token_type, message), parsed.val)

\* Stmt::var with the initializer parsed and the semicolon consumed
var_node(variable_name, initializer) ==
    IF initializer.tag # "ok" THEN initializer
    ELSE ParseOk(initializer.P, Var(variable_name, initializer.val))

\* Parser::var_declaration after the name
var_initializer(variable_name) ==
    IF variable_name.tag # "ok" THEN variable_name
    ELSE IF matches(variable_name.P, {"Equal"})
    THEN var_node(variable_name.val,
                  followed_by(expression(parser_advance(variable_name.P)),
                              "SemiColon", "Expected ';' in the end"))
    ELSE var_node(variable_name.val,
                  followed_by(ParseOk(variable_name.P, NoNode),
                              "SemiColon", "Expected ';' in the end"))

\* Parser::var_declaration
var_declaration(P) ==
    var_initializer(consume(P, "Identifier", "Expected a variable name"))

\* Stmt::expression with the expression parsed and the semicolon consumed
expression_node(expr) ==
    IF expr.tag # "ok" THEN expr ELSE ParseOk(expr.P, Expression(expr.val))

\* Parser::expression_statement
expression_statement(P) ==
    expression_node(followed_by(expression(P), "SemiColon", "Expected ';' at the end"))

\* Stmt::print with the expression parsed and the semicolon consumed
print_node(expr) ==
    IF expr.tag # "ok" THEN expr ELSE ParseOk(expr.P, PrintStmt(expr.val))

\* Parser::print_statement
print_statement(P) ==
    print_node(followed_by(expression(P), "SemiColon", "Expected ';' at the end"))

\* Stmt::ret with the value parsed and the semicolon consumed
return_node(return_keyword, return_value) ==
    IF return_value.tag # "ok" THEN return_value
    ELSE ParseOk(return_value.P, Return(return_keyword, return_value.val))

\* Parser::return_statement: nil is returned when no expression is given
return_statement(P) ==
    IF ~check(P, "SemiColon")
    THEN return_node(previous(P),
                     followed_by(expression(P), "SemiColon",
                                 "Expected a ';' in the end of a statement"))
    ELSE return_node(previous(P),
                     followed_by(ParseOk(P, Literal(Token("Nil", "nil", None,
                                                          previous(P).line))),
                                 "SemiColon", "Expected a ';' in the end of a statement"))

\* "(" expression ")" after while or if: the condition
parenthesised(paren, message) ==
    IF paren.tag # "ok" THEN paren
    ELSE followed_by(expression(paren.P), "RightParen", message)

\* Stmt::WhileLoop with the body parsed
while_node(condition, loop_body) ==
    IF loop_body.tag # "ok" THEN loop_body
    ELSE ParseOk(loop_body.P, WhileLoop(condition, loop_body.val))

\* Parser::while_statement after its condition
while_loop(condition) ==
    IF condition.tag # "ok" THEN condition
    ELSE while_node(condition.val, statement(condition.P))

\* Parser::while_statement
while_statement(P) ==
    while_loop(parenthesised(consume(P, "LeftParen", "Expected '(' after while"),
                             "Expected ')' after condition"))

\* Stmt::IfElse with the else branch parsed
if_node(condition, then_branch, else_branch) ==
    IF else_branch.tag # "ok" THEN else_branch
    ELSE ParseOk(else_branch.P, IfElse(condition, then_branch, else_branch.val))

\* Parser::if_statement after its then branch
if_else(condition, then_branch) ==
    IF then_branch.tag # "ok" THEN then_branch
    ELSE IF matches(then_branch.P, {"Else"})
    THEN if_node(condition, then_branch.val, statement(parser_advance(then_branch.P)))
    ELSE ParseOk(then_branch.P, IfElse(condition, then_branch.val, NoNode))

\* Parser::if_statement after its condition
if_then(condition) ==
    IF condition.tag # "ok" THEN condition
    ELSE if_else(condition.val, statement(condition.P))

\* Parser::if_statement
if_statement(P) ==
    if_then(parenthesised(consume(P, "LeftParen", "Expected '(' after if"),
                          "Expected ')' after condition"))

\* the loop of Parser::for_statement with the increment appended
for_loop_body(loop_body, incrementer) ==
    IF incrementer.node # "None" THEN Block(<< loop_body, Expression(incrementer) >>)
    ELSE loop_body

\* the condition of the loop of Parser::for_statement: true when omitted
for_loop_condition(condition) ==
    IF condition.node = "None" THEN Literal(Token("True", "true", None, 1)) ELSE condition

\* the while loop Parser::for_statement builds
for_loop(initializer, condition, incrementer, loop_body) ==
    IF initializer.node # "None"
    THEN Block(<< initializer,
                  WhileLoop(for_loop_condition(condition),
                            for_loop_body(loop_body, incrementer)) >>)
    ELSE WhileLoop(for_loop_condition(condition), for_loop_body(loop_body, incrementer))

\* Parser::for_statement with its body parsed
for_node(initializer, condition, incrementer, loop_body) ==
    IF loop_body.tag # "ok" THEN loop_body
    ELSE ParseOk(loop_body.P, for_loop(initializer, condition, incrementer, loop_body.val))

\* Parser::for_statement after its clauses
for_body(initializer, condition, incrementer) ==
    IF incrementer.tag # "ok" THEN incrementer
    ELSE for_node(initializer, condition, incrementer.val, statement(incrementer.P))

\* Parser::for_statement after its condition: the increment is parsed unless
\* a semicolon is next
for_incrementer(initializer, condition) ==
    IF condition.tag # "ok" THEN condition
    ELSE IF ~check(condition.P, "SemiColon")
    THEN for_body(initializer, condition.val,
                  followed_by(expression(condition.P), "RightParen",
                              "Expected ')' after for clauses"))
    ELSE for_body(initializer, condition.val,
                  followed_by(ParseOk(condition.P, NoNode), "RightParen",
                              "Expected ')' after for clauses"))

\* Parser::for_statement after its initializer
for_condition(initializer) ==
    IF initializer.tag # "ok" THEN initializer
    ELSE IF ~check(initializer.P, "SemiColon")
    THEN for_incrementer(initializer.val,
                         followed_by(expression(initializer.P), "SemiColon",
                                     "Expected ';' after loop condition"))
    ELSE for_incrementer(initializer.val,
                         followed_by(ParseOk(initializer.P, NoNode), "SemiColon",
                                     "Expected ';' after loop condition"))

\* Parser::for_statement after "("
for_initializer(paren) ==
    IF paren.tag # "ok" THEN paren
    ELSE IF matches(paren.P, {"SemiColon"})
    THEN for_condition(ParseOk(parser_advance(paren.P), NoNode))
    ELSE IF matches(paren.P, {"Var"})
    THEN for_condition(var_declaration(parser_advance(paren.P)))
    ELSE for_condition(expression_statement(paren.P))

\* Parser::for_statement
for_statement(P) == for_initializer(consume(P, "LeftParen", "Expected '(' after 'for'"))

\* an iteration of the loop of Parser::block, with the declaration parsed
block_statement(declared, statements) ==
    IF declared.tag # "ok" THEN declared
    ELSE block_statements(declared.P, Append(statements, declared.val))

\* the loop of Parser::block and the consume of "}"
block_statements(P, statements) ==
    IF ~check(P, "RightBrace") /\ ~parser_is_at_end(P)
    THEN block_statement(declaration(P), statements)
    ELSE followed_by(ParseOk(P, statements), "RightBrace",
                     "Expected '}' at the end of block")

\* Parser::block
block(P) == block_statements(P, <<>>)

\* Stmt::block with the statements parsed
block_node(statements) ==
    IF statements.tag # "ok" THEN statements
    ELSE ParseOk(statements.P, Block(statements.val))

\* Parser::function: the advisory error of a long parameter list
too_many_parameters(P, params) ==
    IF Len(params) = MaxArguments
    THEN push_error(P, "Too many parameters: 255 parameters allowed").P
    ELSE P

\* an iteration of the loop of Parser::function, with the name consumed
parameter(param, params) ==
    IF param.tag # "ok" THEN param
    ELSE IF matches(param.P, {"Comma"})
    THEN parameters(parser_advance(param.P), Append(params, param.val))
    ELSE ParseOk(param.P, Append(params, param.val))

\* the loop of Parser::function
parameters(P, params) ==
    parameter(consume(too_many_parameters(P, params), "Identifier",
                      "Expected a parameter name"), params)

\* Stmt::function with the body parsed
function_node(name, params, body) ==
    IF body.tag # "ok" THEN body
    ELSE ParseOk(body.P, FunctionDecl(name, params, body.val))

\* Parser::function after its parameters: the results of the consumes of ")"
\* and "{" are dropped
function_body(name, params) ==
    IF params.tag # "ok" THEN params
    ELSE function_node(name, params.val,
            block(consume(consume(params.P, "RightParen",
                                  "Expected a ')' after parameters").P,
                          "LeftBrace",
                          "Expected '{' in function declaration and define function block").P))

\* Parser::function after "(", the result of whose consume is dropped
function_parameters(name, P) ==
    IF ~check(P, "RightParen") THEN function_body(name, parameters(P, <<>>))
    ELSE function_body(name, ParseOk(P, <<>>))

\* Parser::function after its name
function_name(name) ==
    IF name.tag # "ok" THEN name
    ELSE function_parameters(name.val,
            consume(name.P, "LeftParen",
                    "Expected '(' after function name in declaration").P)

\* Parser::function
function(P, callable_type) ==
    function_name(consume(P, "Identifier", "Expected a " \o callable_type \o " name"))

\* Parser::fun_declaration
fun_declaration(P) == function(P, "function")

\* Parser::statement
statement(P) ==
    IF matches(P, {"For"}) THEN for_statement(parser_advance(P))
    ELSE IF matches(P, {"While"}) THEN while_statement(parser_advance(P))
    ELSE IF matches(P, {"If"}) THEN if_statement(parser_advance(P))
    ELSE IF matches(P, {"Print"}) THEN print_statement(parser_advance(P))
    ELSE IF matches(P, {"Return"}) THEN return_statement(parser_advance(P))
    ELSE IF matches(P, {"LeftBrace"}) THEN block_node(block(parser_advance(P)))
    ELSE expression_statement(P)

\* Parser::declaration
declaration(P) ==
    IF matches(P, {"Fun"}) THEN fun_declaration(parser_advance(P))
    ELSE IF matches(P, {"Var"}) THEN var_declaration(parser_advance(P))
    ELSE statement(P)

\* Parser::synchronize
synchronize(P) ==
    IF parser_is_at_end(P) THEN P
    ELSE IF previous(P).token_type = "SemiColon" THEN P
    ELSE IF parser_peek(P).token_type \in
               {"Class", "Fun", "Var", "For", "If", "While", "Print", "Return"}
    THEN P
    ELSE synchronize(parser_advance(P))

\* an iteration of the loop of Parser::parse after synchronize: when current
\* is where the failed declaration started, the next iteration fails at the
\* same token again, and parse never returns (tag "diverge")
parse_synchronized(P, synchronized) ==
    IF synchronized.current = P.current THEN [P |-> synchronized, tag |-> "diverge"]
    ELSE parse_declarations(synchronized)

\* an iteration of the loop of Parser::parse, with the declaration parsed
parse_declared(P, declared) ==
    CASE declared.tag = "ok" ->
            parse_declarations([declared.P EXCEPT !.statements = Append(@, declared.val)])
      [] declared.tag = "err" -> parse_synchronized(P, synchronize(declared.P))
      [] OTHER -> [P |-> declared.P, tag |-> "panic"]

\* the loop of Parser::parse
parse_declarations(P) ==
    IF parser_is_at_end(P) THEN [P |-> P, tag |-> "ok"]
    ELSE parse_declared(P, declaration(P))

\* Parser::parse
parse(P) == parse_declarations(P)

----------------------------------------------------------------------------
(* run of main.rs: the source is scanned, the tokens are parsed and the    *)
(* statements are interpreted by a new Interpreter.                        *)

RECURSIVE interpret(_, _)

\* the ? on execute in the loop of Interpreter::interpret
interpret_rest(executed, statements) ==
    IF executed.tag # "ok" THEN executed ELSE interpret(executed.I, statements)

\* Interpreter::interpret on all the statements of a program
interpret(I, statements) ==
    IF statements = <<>> THEN Ok(I, None)
    ELSE interpret_rest(execute(I, Head(statements)), Tail(statements))

\* the Result of parse that run matches on: Ok with the statements when no
\* ParseError was pushed
parsed(P) ==
    IF P.errors = <<>> THEN [tag |-> "ok", val |-> P.statements]
    ELSE [tag |-> "err", val |-> <<>>]

\* what run did: how it ended ("done", or "panic" and "diverge" when the
\* process aborted or parse never returned), the errors the Lexer and the
\* Parser hold, the statements handed to interpret if it was invoked, and
\* the result of interpret
Outcome(tag, lex_errors, parse_errors, invoked, statements, result) ==
    [tag |-> tag, lex_errors |-> lex_errors, parse_errors |-> parse_errors,
     invoked |-> invoked, statements |-> statements, result |-> result]

\* the match on the Result of parse in run: Ok is interpreted by
\* Interpreter::new(None), anything else prints "Error on parsing"
run_parsed(I, L, P, val_vec) ==
    IF val_vec.tag = "ok"
    THEN Outcome("done", L.errors, P.errors, TRUE, val_vec.val, interpret(I, val_vec.val))
    ELSE Outcome("done", L.errors, P.errors, FALSE, <<>>, Ok(I, None))

\* run after parser.parse()
run_parse(I, L, p) ==
    IF p.tag # "ok" THEN Outcome(p.tag, L.errors, p.P.errors, FALSE, <<>>, Ok(I, None))
    ELSE run_parsed(I, L, p.P, parsed(p.P))

\* run after lexer.scan(): the errors of the Lexer are not looked at
run_scanned(I, L) ==
    IF L.tag = "panic" THEN Outcome("panic", L.errors, <<>>, FALSE, <<>>, Ok(I, None))
    ELSE run_parse(I, L, parse(Parser(L.tokens)))

\* run of main.rs, I being the state Interpreter::new(None) builds
run(I, code) == run_scanned(I, scan(Lexer(code)))

----------------------------------------------------------------------------
(* The run pipeline driven on one source (SpecRun): the source is scanned, *)
(* or scanned, parsed and interpreted as main.rs does.                     *)

\* the longest source made of the characters of Alphabet
MaxSource == 3

\* the characters the sources are made of: a quote, a letter, a digit, a
\* newline, a character no token starts with, and punctuation
Alphabet == {"\"", "a", "1", "\n", "@", ";", "=", "/", ".", "(", ")"}

\* print 1;
PrintOne ==
    << "p", "r", "i", "n", "t", " ", "1", ";" >>
\* print"a";
PrintA ==
    << "p", "r", "i", "n", "t", "\"", "a", "\"", ";" >>
\* print"a";@
PrintAThenAt ==
    << "p", "r", "i", "n", "t", "\"", "a", "\"", ";", "@" >>
\* print"a";1=1;
PrintAThenTarget ==
    << "p", "r", "i", "n", "t", "\"", "a", "\"", ";", "1", "=", "1", ";" >>
\* var a=1;print a;
VarAThenPrint ==
    << "v", "a", "r", " ", "a", "=", "1", ";", "p", "r", "i", "n", "t", " ", "a", ";" >>
\* for(var i=0;i<2;i=i+1)print i;
ForLoop ==
    << "f", "o", "r", "(", "v", "a", "r", " ", "i", "=", "0", ";", "i", "<", "2", ";",
       "i", "=", "i", "+", "1", ")", "p", "r", "i", "n", "t", " ", "i", ";" >>
\* {if(1==2)print"t";else print"e";}
IfElseInBlock ==
    << "{", "i", "f", "(", "1", "=", "=", "2", ")", "p", "r", "i", "n", "t", "\"", "t",
       "\"", ";", "e", "l", "s", "e", " ", "p", "r", "i", "n", "t", "\"", "e", "\"",
       ";", "}" >>
\* while(false)print 1;
WhileFalse ==
    << "w", "h", "i", "l", "e", "(", "f", "a", "l", "s", "e", ")", "p", "r", "i", "n",
       "t", " ", "1", ";" >>
\* fun f(a,b){return a+b;}print f(1,2);
FunReturn ==
    << "f", "u", "n", " ", "f", "(", "a", ",", "b", ")", "{", "r", "e", "t", "u", "r",
       "n", " ", "a", "+", "b", ";", "}", "p", "r", "i", "n", "t", " ", "f", "(", "1",
       ",", "2", ")", ";" >>

\* programs longer than MaxSource
\* print 1; with a tab, a carriage return and a newline for the space
PrintTabOne ==
    << "p", "r", "i", "n", "t", "\t", "1", ";" >>
PrintReturnOne ==
    << "p", "r", "i", "n", "t", "\r", "1", ";" >>
PrintNewlineOne ==
    << "p", "r", "i", "n", "t", "\n", "1", ";" >>
Scripts ==
    {PrintOne, PrintA, PrintAThenAt, PrintAThenTarget, VarAThenPrint,
     ForLoop, IfElseInBlock, WhileFalse, FunReturn,
     PrintTabOne, PrintReturnOne, PrintNewlineOne}

\* the sources of at most MaxSource characters, and the scripts
Sources == UNION {[1..k -> Alphabet] : k \in 0..MaxSource} \cup Scripts

\* Lexer::scan on a source, as run calls it
Scanned(source, L) ==
    /\ last' = [op |-> "scan", source |-> source, tag |-> L.tag, tokens |-> L.tokens,
                errors |-> L.errors, line |-> L.line]
    /\ status' = IF L.tag = "panic" THEN "panic" ELSE "done"
    /\ UNCHANGED <<envs, environment, output, error, log, program, steps>>

\* a source is scanned
Scan ==
    /\ last.op = "new"
    /\ \E source \in Sources : Scanned(source, scan(Lexer(source)))

\* run on a source: what the Interpreter did is the state, the rest is
\* recorded in last
Ran(source, r) ==
    /\ last' = [op |-> "run", source |-> source, tag |-> r.tag,
                lex_errors |-> r.lex_errors, parse_errors |-> r.parse_errors,
                invoked |-> r.invoked, statements |-> r.statements]
    /\ envs' = r.result.I.envs
    /\ environment' = r.result.I.environment
    /\ output' = r.result.I.output
    /\ log' = r.result.I.log
    /\ error' = r.result.err
    /\ status' = CASE r.tag # "done" -> r.tag
                   [] r.result.tag = "ok" -> "done"
                   [] r.result.tag = "err" -> "error"
                   [] OTHER -> "panic"
    /\ UNCHANGED <<program, steps>>

\* a source is run by a new Interpreter
Run ==
    /\ last.op = "new"
    /\ \E source \in Sources : Ran(source, run(Interpreter(0), source))

NextRun == Scan \/ Run

SpecRun == Init /\ [][NextRun]_vars

----------------------------------------------------------------------------
(* The Parser driven on the tokens of one source (SpecParse), as run hands *)
(* lexer.tokens to Parser::new: programs made of a few statements, well    *)
(* formed or not.                                                          *)

\* the most statements of a program
MaxPieces == 5

\* 1;
WellFormedLiteral == << "1", ";" >>
\* a=1;
WellFormedAssign == << "a", "=", "1", ";" >>
\* 1a;  a second expression where the semicolon has to stand
MalformedInside == << "1", "a", ";" >>
\* =1;  a token no statement begins with
MalformedStart == << "=", "1", ";" >>
\* 1=1;  a literal as the target of an assignment
MalformedTarget == << "1", "=", "1", ";" >>
\* (1;  a grouping without its closing parenthesis
MalformedGrouping == << "(", "1", ";" >>

\* the statements programs are made of
Pieces ==
    << WellFormedLiteral, WellFormedAssign, MalformedInside, MalformedStart,
       MalformedTarget, MalformedGrouping >>

\* the programs: at most MaxPieces statements, each one of Pieces
Programs == UNION {[1..k -> 1..Len(Pieces)] : k \in 0..MaxPieces}

\* the source of a program
RECURSIVE SourceOf(_)
SourceOf(pieces) ==
    IF pieces = <<>> THEN <<>> ELSE Pieces[Head(pieces)] \o SourceOf(Tail(pieces))

\* lexer.tokens after lexer.scan()
TokensOf(source) == scan(Lexer(source)).tokens

\* Parser::parse on the tokens of a source: how it ended ("ok", or "panic"
\* and "diverge" when the process aborted or parse never returned) and the
\* Parser it left
ParsedSource(kind, input, tokens, p) ==
    /\ last' = [op |-> "parse", kind |-> kind, input |-> input, tokens |-> tokens,
                tag |-> p.tag, statements |-> p.P.statements, errors |-> p.P.errors,
                current |-> p.P.current]
    /\ status' = IF p.tag = "ok" THEN "done" ELSE p.tag
    /\ UNCHANGED <<envs, environment, output, error, log, program, steps>>

\* the left sides of an assignment: a, a.b, 1, "s", (a), a(), -a, a+b
Targets ==
    << << "a" >>, << "a", ".", "b" >>, << "1" >>, << "\"", "s", "\"" >>,
       << "(", "a", ")" >>, << "a", "(", ")" >>, << "-", "a" >>, << "a", "+", "b" >> >>

\* <target>=1;2;
AssignmentTo(target) == target \o << "=", "1", ";", "2", ";" >>

\* the clauses of a for statement: which are present, and in which form
Clauses == [init : {"omitted", "var", "expression"}, cond : BOOLEAN, inc : BOOLEAN]

\* for(<init>;<cond>;<inc>)a; with var a=1 or a=1, a<2 and a=3 as the clauses
ForSource(c) ==
    << "f", "o", "r", "(" >>
    \o (CASE c.init = "var" -> << "v", "a", "r", "\n", "a", "=", "1" >>
          [] c.init = "expression" -> << "a", "=", "1" >>
          [] OTHER -> <<>>)
    \o << ";" >>
    \o (IF c.cond THEN << "a", "<", "2" >> ELSE <<>>)
    \o << ";" >>
    \o (IF c.inc THEN << "a", "=", "3" >> ELSE <<>>)
    \o << ")", "a", ";" >>

\* one operator of each precedence level that takes two operands, as written
\* in a source (a keyword stands on a line of its own)
ChainOperators ==
    << << "+" >>, << "-" >>, << "*" >>, << "/" >>,
       << "\n", "o", "r", "\n" >>, << "\n", "a", "n", "d", "\n" >>,
       << "=", "=" >>, << "!", "=" >>, << "<" >>, << ">", "=" >> >>

MaxOperands == 4
RECURSIVE ChainSource(_, _)
\* a op b op c ... ; with the given number of operands
ChainSource(op, operands) ==
    IF operands = 1 THEN << "a" >>
    ELSE ChainSource(op, operands - 1) \o op \o << "b" >>

\* what is parsed: a program of statements, an assignment to a target, a for
\* statement with some of its clauses, a chain of operators of one level
Inputs ==
    [kind : {"program"}, input : Programs]
    \cup [kind : {"assignment"}, input : 1..Len(Targets)]
    \cup [kind : {"for"}, input : Clauses]
    \cup [kind : {"chain"}, input : [operator : 1..Len(ChainOperators), operands : 2..MaxOperands]]

\* the source of an input
SourceFor(i) ==
    CASE i.kind = "program" -> SourceOf(i.input)
      [] i.kind = "assignment" -> AssignmentTo(Targets[i.input])
      [] i.kind = "for" -> ForSource(i.input)
      [] OTHER -> ChainSource(ChainOperators[i.input.operator], i.input.operands) \o << ";" >>

\* Parser::parse on the tokens of a source, as run calls it
Parse ==
    /\ last.op = "new"
    /\ \E i \in Inputs :
         ParsedSource(i.kind, i.input, TokensOf(SourceFor(i)),
                      parse(Parser(TokensOf(SourceFor(i)))))

NextParse == Parse

SpecParse == Init /\ [][NextParse]_vars

----------------------------------------------------------------------------
(* Properties of the interpreter (Spec) *)

\* the place of a statement in Statements
Index(s) == CHOOSE i \in 1..Len(Statements) : Statements[i] = s

\* this step of interpret executes the statement s
Executes(s) == program' = Append(program, Index(s))

\* the statement s was the last one executed
Executed(s) == Len(program) > 0 /\ program[Len(program)] = Index(s)

\* what the name resolves to from the Environment e
Resolve(e, lexeme) == get(envs, e, Identifier(lexeme, 0))

\* the function of the given declaration is what the name resolves to
Declared(decl) ==
    LET r == Resolve(environment, decl.name.lexeme)
    IN r.ok /\ r.val.kind = "Function" /\ r.val.declaration = decl

\* the last n lines printed
Printed(n) == SubSeq(output, Len(output) - n + 1, Len(output))

\* the lines a program of counter calls is to print: the k-th call of one
\* counter prints k
CounterOutput[n \in 0..MaxSteps + 1] ==
    IF n = 0 THEN <<>>
    ELSE IF n <= Len(program) /\ program[n] \in {Index(PrintC), Index(PrintD)}
         THEN Append(CounterOutput[n - 1],
                     ToString(Cardinality({m \in 1..n : program[m] = program[n]})))
         ELSE CounterOutput[n - 1]

\* a program that declares makeCounter, makes the counters c and d and then
\* only calls them
CounterProgram ==
    /\ Len(program) >= 3
    /\ program[1] = Index(DeclareMakeCounter)
    /\ program[2] = Index(VarC)
    /\ program[3] = Index(VarD)
    /\ \A n \in 4..Len(program) : program[n] \in {Index(PrintC), Index(PrintD)}

\* C1: the function returned by one call of makeCounter counts 1, 2, ... over
\* its calls, and the function returned by a second call counts on its own:
\* in a program that makes the counters c and d and then calls them in any
\* order, every call succeeds and the k-th call of each counter prints k.
C1_IndependentCounters ==
    CounterProgram => status # "error" /\ output = CounterOutput[Len(program)]

\* C2: the body of a called function runs in a new Environment whose parent is
\* the function's closure, not the caller's active Environment, with each
\* parameter bound to the argument at its place.  show(p, q) prints its free
\* variable x, then p and q; called from a block that has its own local x, it
\* prints the x visible from the Environment show was declared in (or fails
\* with x undefined when none is visible there), then the two arguments.
\* peek() reads y, which only its caller's block defines: the call fails.
C2_ClosureScope ==
    [][ /\ (Executes(BlockShow) /\ Declared(DeclareShow)) =>
              LET x == Resolve(Resolve(environment, "show").val.closure, "x")
              IN IF x.ok
                 THEN /\ status' = "running"
                      /\ output' = output \o << Display(x.val), "local!", "2" >>
                 ELSE /\ status' = "error"
                      /\ error' = InterpretError("Undefined variable 'x'.", 11)
                      /\ output' = output
        /\ (Executes(BlockPeek) /\ Declared(DeclarePeek)) =>
              /\ status' = "error"
              /\ error' = InterpretError("Undefined variable 'y'.", 13)
              /\ output' = output
      ]_vars

\* C2 witness: show has been called from the block with the local x and has
\* printed the x of its declaration site and its two arguments
C2_Witness ==
    /\ Executed(BlockShow)
    /\ status = "running"
    /\ Len(output) >= 3
    /\ Printed(3) = << "global", "local!", "2" >>

\* C3: on every exit of execute_block (normal completion, return signal,
\* error) the active Environment is the one that was active before the block
\* was entered.
C3_BlockRestoresEnvironment ==
    \A i \in 1..Len(log) : log[i].after = log[i].before

\* C4: a return inside a Block inside an If of a function body makes the call
\* yield the returned value, and no later statement of the body runs:
\* early(true) yields 1 and prints nothing itself.
C4_ReturnUnwindsNestedBlocks ==
    [][ (Executes(PrintEarly) /\ Declared(DeclareEarly)) =>
            /\ status' = "running"
            /\ output' = Append(output, "1")
      ]_vars

\* C5: a return signal from the body of a While ends the loop at once and is
\* what the While yields: loop() returns from the first iteration, with the
\* value 1.
C5_ReturnEndsWhile ==
    [][ (Executes(PrintLoop) /\ Declared(DeclareLoop)) =>
            /\ status' = "running"
            /\ output' = Append(output, "1")
      ]_vars

\* C6: a function declaration inside a block defines the name in the block's
\* scope only: the global Environment keeps the names it had.
C6_DeclarationIsLocal ==
    [][ Executes(BlockLocal) =>
            DOMAIN envs'[globals].values = DOMAIN envs[globals].values
      ]_vars

\* C10: after o.f = 1 on the Instance held in the variable o, reading o.f
\* through that variable yields 1.
C10_SetThenGet ==
    [][ /\ Executes(PrintField)
        /\ Len(program) >= 2
        /\ SubSeq(program, Len(program) - 1, Len(program)) = << Index(VarO), Index(SetField) >>
        => /\ status' = "running"
           /\ output' = Append(output, "1")
      ]_vars

\* C12: a Class declaration binds the name to Nil in the active Environment,
\* then evaluates the superclass expression, then builds the method table,
\* then rebinds the name to the Class.  So in 'class Self < Self {}' the
\* superclass expression reads Nil, which is not a Class: the declaration
\* fails with "Superclass must be a class" and leaves Self bound to Nil; and
\* 'class Derived < Base { .. }' fails when Base is not a Class and otherwise
\* binds Derived to a Class whose superclass is the value of Base.
C12_ClassDeclarationOrder ==
    [][ /\ Executes(DeclareSelf) =>
              /\ status' = "error"
              /\ error' = InterpretError("Superclass must be a class", 41)
              /\ get(envs', environment', Identifier("Self", 41)).ok
              /\ get(envs', environment', Identifier("Self", 41)).val = Nil
        /\ Executes(DeclareDerived) =>
              LET base == Resolve(environment, "Base")
                  derived == get(envs', environment', Identifier("Derived", 40))
              IN IF base.ok /\ base.val.kind = "Class"
                 THEN /\ status' = "running"
                      /\ derived.ok
                      /\ derived.val.kind = "Class"
                      /\ derived.val.superclass = base.val
                      /\ DOMAIN derived.val.methods = {"m"}
                 ELSE status' = "error"
      ]_vars

\* C13: a Call evaluates the callee, then the arguments from left to right,
\* and only then checks the callee.  With say(s) printing s: calling the
\* value of say("c"), which is Nil, with two arguments prints c, a1, a2 and
\* then fails with "Not a function"; calling two(p, q) with one or three
\* arguments, or clock with one, evaluates the arguments and then fails with
\* an InterpretError without running the body, without a new Environment for
\* the callee and with the active Environment unchanged.
C13_CallChecks ==
    [][ /\ (Executes(CallNotFunction) /\ Declared(DeclareSay)) =>
              /\ status' = "error"
              /\ error' = InterpretError("Not a function", 45)
              /\ output' = output \o << "c", "a1", "a2" >>
              /\ environment' = environment
        /\ (Executes(CallTooFew) /\ Declared(DeclareSay) /\ Declared(DeclareTwo)) =>
              /\ status' = "error"
              /\ error'.kind = "InterpretError"
              /\ error'.line = 46
              /\ output' = Append(output, "a1")
              /\ Len(envs') = Len(envs) + 1
              /\ environment' = environment
        /\ (Executes(CallTooMany) /\ Declared(DeclareSay) /\ Declared(DeclareTwo)) =>
              /\ status' = "error"
              /\ error'.kind = "InterpretError"
              /\ error'.line = 47
              /\ output' = Append(output, "a3")
              /\ Len(envs') = Len(envs) + 1
              /\ environment' = environment
        /\ Executes(CallClock) =>
              /\ status' = "error"
              /\ error'.kind = "InterpretError"
              /\ error'.line = 48
              /\ output' = output
              /\ envs' = envs
              /\ environment' = environment
      ]_vars

\* C13 witness: two, declared with two parameters, has been called with the
\* one argument say("a1"): the argument was printed and the call failed on
\* the number of arguments
C13_Witness ==
    /\ Executed(CallTooFew)
    /\ status = "error"
    /\ error = InterpretError("Number of arguments does not match number of parameters", 46)
    /\ Len(output) >= 1
    /\ Printed(1) = << "a1" >>

\* C18: interpret stops at the first InterpretError: the statement that
\* fails ends the run with its error, no statement is executed after it, and
\* what the statements before it printed and bound is kept.
C18_FailFast ==
    [][ /\ status # "error"
        /\ (error'.kind = "InterpretError" =>
              /\ status' = "error"
              /\ error'.line > 0
              /\ Len(output') >= Len(output)
              /\ SubSeq(output', 1, Len(output)) = output
              /\ \A e \in 1..Len(envs) : envs'[e] = envs[e])
      ]_vars

\* C18 witness: a program of several statements has printed and has then
\* failed
C18_Witness ==
    /\ status = "error"
    /\ error.kind = "InterpretError"
    /\ Len(program) >= 3
    /\ Len(output) >= 1

----------------------------------------------------------------------------
(* Properties of the Environment (SpecEnv) *)

\* the scope chain of the Environment e, from e outward to the global one
RECURSIVE Chain(_, _)
Chain(h, e) == IF e = 0 THEN <<>> ELSE <<e>> \o Chain(h, h[e].enclosing)

\* the places on the chain of the scopes that define the name
Defining(h, e, lexeme) ==
    {k \in 1..Len(Chain(h, e)) : lexeme \in DOMAIN h[Chain(h, e)[k]].values}

\* the nearest scope on the chain that defines the name
Nearest(h, e, lexeme) ==
    Chain(h, e)[CHOOSE k \in Defining(h, e, lexeme) :
                    \A m \in Defining(h, e, lexeme) : k <= m]

\* every scope has the names it had, and every binding but that of the name
\* in the scope n has the value it had
OnlyChanged(n, lexeme) ==
    /\ Len(envs') = Len(envs)
    /\ \A e \in 1..Len(envs) :
         /\ envs'[e].enclosing = envs[e].enclosing
         /\ DOMAIN envs'[e].values = DOMAIN envs[e].values
         /\ \A x \in DOMAIN envs[e].values :
              (e # n \/ x # lexeme) => envs'[e].values[x] = envs[e].values[x]

\* C7: assign of a name defined somewhere on the chain succeeds, gives the
\* name its new value in the nearest scope that defines it, and changes no
\* other binding of any scope and adds no name to any scope.
C7_AssignNearest ==
    [][ (last'.op = "assign" /\ Defining(envs, environment, last'.token.lexeme) # {}) =>
            LET n == Nearest(envs, environment, last'.token.lexeme)
            IN /\ last'.ok
               /\ envs'[n].values[last'.token.lexeme] = last'.value
               /\ OnlyChanged(n, last'.token.lexeme)
      ]_vars

\* C7 witness: an assign has changed the inner of two bindings of one name on
\* the chain, and the outer one has another value
C7_Witness ==
    /\ last.op = "assign"
    /\ last.ok
    /\ Cardinality(Defining(envs, environment, last.token.lexeme)) >= 2
    /\ \E k \in Defining(envs, environment, last.token.lexeme) :
         envs[Chain(envs, environment)[k]].values[last.token.lexeme] # last.value

\* C8: get and assign of a name that no scope on the chain defines yield an
\* InterpretError carrying the line of the token they were given, and the
\* failed assign leaves every scope as it was.
C8_UndefinedIsError ==
    [][ (last'.op \in {"assign", "get"}
         /\ Defining(envs, environment, last'.token.lexeme) = {}) =>
            /\ ~last'.ok
            /\ last'.err.kind = "InterpretError"
            /\ last'.err.line = last'.token.line
            /\ envs' = envs
      ]_vars

\* C8 witness: an assign of an undefined name, given a token of line 2, has
\* failed while another name is defined on the chain
C8_Witness ==
    /\ last.op = "assign"
    /\ ~last.ok
    /\ last.token.line = 2
    /\ \E x \in Names : Defining(envs, environment, x) # {}

\* C9: define always takes effect in the local scope: afterwards the name
\* resolves to the new value from that scope, the other names of the scope and
\* all other scopes are as they were, and from the enclosing scope the name
\* resolves as it did before.
C9_DefineLocalOnly ==
    [][ last'.op = "define" =>
            LET token == Identifier(last'.name, 1)
                outer == envs[environment].enclosing
            IN /\ get(envs', environment', token).ok
               /\ get(envs', environment', token).val = last'.value
               /\ Len(envs') = Len(envs)
               /\ \A e \in 1..Len(envs) : e # environment => envs'[e] = envs[e]
               /\ envs'[environment].enclosing = outer
               /\ DOMAIN envs'[environment].values =
                      DOMAIN envs[environment].values \cup {last'.name}
               /\ \A x \in DOMAIN envs[environment].values :
                      x # last'.name =>
                          envs'[environment].values[x] = envs[environment].values[x]
               /\ get(envs', outer, token) = get(envs, outer, token)
      ]_vars

\* C9 witness: a name already defined in the local scope has been defined
\* again with another value, while an enclosing scope binds the same name to
\* a value of its own
C9_Witness ==
    /\ last.op = "define"
    /\ last.was.kind # "None"
    /\ last.was # last.value
    /\ get(envs, envs[environment].enclosing, Identifier(last.name, 1)).ok
    /\ get(envs, envs[environment].enclosing, Identifier(last.name, 1)).val # last.value

----------------------------------------------------------------------------
(* Properties of the Instance (SpecInstance) *)

\* the classes from the class itself up its superclass chain
RECURSIVE ClassChain(_)
ClassChain(class) ==
    IF class.superclass.kind = "Class"
    THEN <<class>> \o ClassChain(class.superclass)
    ELSE <<class>>

\* the places on the chain of the classes whose own table has the method
Owners(class, name) ==
    {k \in 1..Len(ClassChain(class)) : name \in DOMAIN ClassChain(class)[k].methods}

\* C11: Instance.get(name) yields the instance's own field of that name if
\* there is one, otherwise the method of that name of the nearest class on
\* the chain from the instance's class up its superclasses, otherwise the
\* InterpretError "Property does not exist".
C11_GetResolution ==
    [][ last'.op = "property" =>
            LET name == last'.token.lexeme
                instance == last.instance
                owners == Owners(instance.class, name)
                nearest == CHOOSE k \in owners : \A j \in owners : k <= j
            IN IF name \in DOMAIN instance.fields
               THEN last'.tag = "ok" /\ last'.val = instance.fields[name]
               ELSE IF owners # {}
                    THEN /\ last'.tag = "ok"
                         /\ last'.val = ClassChain(instance.class)[nearest].methods[name]
                    ELSE /\ last'.tag = "err"
                         /\ last'.err = InterpretError("Property does not exist",
                                                       last'.token.line)
      ]_vars

\* C11 witness: an Instance of Leaf, which has no method of its own and no
\* such field, has yielded the method n that only Base, two classes up,
\* defines
C11_Witness ==
    /\ last.op = "property"
    /\ last.instance.class = Leaf
    /\ last.token.lexeme = "n"
    /\ "n" \notin DOMAIN last.instance.fields
    /\ last.tag = "ok"
    /\ last.val = Method("Base", "n")

----------------------------------------------------------------------------
(* Properties of the operators (SpecOps) *)

\* the operands: what a and b resolve to from the active Environment
OperandA == get(envs, environment, Identifier("a", 1))
OperandB == get(envs, environment, Identifier("b", 1))

\* this step evaluates a <operator> b, for an operator of the given types,
\* with a and b defined
EvaluatesBinary(types) ==
    /\ last'.op = "evaluate"
    /\ last'.expr.node = "Binary"
    /\ last'.expr.operator.token_type \in types
    /\ OperandA.ok
    /\ OperandB.ok

\* the last step evaluated a <operator> b with these operands
EvaluatedBinary(type, a, b) ==
    /\ last.op = "evaluate"
    /\ last.expr.node = "Binary"
    /\ last.expr.operator.token_type = type
    /\ OperandA.ok /\ OperandA.val = a
    /\ OperandB.ok /\ OperandB.val = b

Primitives == {"Nil", "Boolean", "Number", "String"}

C15_DivisionAndNumberOperands ==
    [][ /\ EvaluatesBinary({"Slash"}) =>
              LET a == OperandA.val
                  b == OperandB.val
                  q == last'.val
              IN IF a.kind # "Number" \/ b.kind # "Number" THEN TRUE
                 ELSE IF b.num = 0
                      THEN /\ last'.tag = "err"
                           /\ last'.err = InterpretError("Division by Zero", 1)
                      ELSE /\ last'.tag = "ok"
                           /\ q.kind = "Number"
                           /\ q.den > 0
                           /\ q.num * b.num * a.den = a.num * b.den * q.den
        /\ (/\ EvaluatesBinary({"Minus", "Star", "Slash", "Less", "LessEqual", "Greater",
                                "GreaterEqual"})
            /\ (OperandA.val.kind # "Number" \/ OperandB.val.kind # "Number")) =>
              /\ last'.tag = "err"
              /\ last'.err.kind = "InterpretError"
      ]_vars

\* C15 witness: 1 / 2 has been evaluated and is the Number one half
C15_Witness ==
    /\ EvaluatedBinary("Slash", Number(1), Number(2))
    /\ last.tag = "ok"
    /\ last.val = Quotient(1, 2)

\* C16: a == b and a != b never fail, for values of any kind: for two values
\* of the same primitive kind == is true exactly when they are equal, for
\* values of different kinds == is false, and != is the opposite.
C16_EqualityTotal ==
    [][ EvaluatesBinary({"EqualEqual", "BangEqual"}) =>
            LET a == OperandA.val
                b == OperandB.val
                equal == last'.expr.operator.token_type = "EqualEqual"
            IN /\ last'.tag = "ok"
               /\ last'.val.kind = "Boolean"
               /\ ((a.kind = b.kind /\ a.kind \in Primitives) =>
                      (last'.val.bool = (equal <=> (a = b))))
               /\ (a.kind # b.kind => (last'.val.bool = ~equal))
      ]_vars

\* the truthiness of a value of a primitive kind
Truthy(v) ==
    CASE v.kind = "Nil" -> FALSE
      [] v.kind = "Boolean" -> v.bool
      [] v.kind = "Number" -> v.num # 0
      [] v.kind = "String" -> TRUE

\* C17: every value has a truthiness: Nil, false and the Number 0 are falsy,
\* true, the other Numbers and every String are truthy, so an if takes the
\* branch of the truthiness of its condition; and ! of any value, of a
\* Function, NativeFunction, Class or Instance too, is the Boolean opposite
\* of its truthiness and never fails.
C17_Truthiness ==
    [][ /\ (/\ last'.op = "evaluate"
            /\ last'.expr.node = "Unary"
            /\ last'.expr.operator.token_type = "Bang"
            /\ OperandA.ok) =>
              /\ last'.tag = "ok"
              /\ last'.val.kind = "Boolean"
              /\ (OperandA.val.kind \in Primitives =>
                     (last'.val.bool = ~Truthy(OperandA.val)))
        /\ (last'.op = "if" /\ OperandA.ok) =>
              /\ last'.tag = "ok"
              /\ (OperandA.val.kind \in Primitives =>
                     (output' = Append(output, IF Truthy(OperandA.val) THEN "then"
                                               ELSE "else")))
      ]_vars

----------------------------------------------------------------------------
(* Properties of the Lexer and of the run pipeline (SpecRun) *)

\* C20: for every source, the empty one, one with unrecognised characters and
\* one with a string literal left unterminated included, scan completes and
\* the tokens end with an EOF token that is their only EOF token and carries
\* the final value of line.
C20_ScanEndsWithEOF ==
    last.op = "scan" =>
        /\ last.tag = "ok"
        /\ Len(last.tokens) >= 1
        /\ last.tokens[Len(last.tokens)].token_type = "EOF"
        /\ last.tokens[Len(last.tokens)].line = last.line
        /\ \A i \in 1..(Len(last.tokens) - 1) : last.tokens[i].token_type # "EOF"

\* C19: run invokes the Interpreter only when the scan recorded no LexError
\* and the parse recorded no ParseError; when either recorded an error, no
\* statement of the program is executed and nothing is printed.
C19_NoInterpretAfterErrors ==
    last.op = "run" =>
        /\ last.invoked => (last.lex_errors = <<>> /\ last.parse_errors = <<>>)
        /\ (last.lex_errors # <<>> \/ last.parse_errors # <<>>) =>
              (last.statements = <<>> /\ output = <<>>)

\* where the character that follows the given characters stands: in "code",
\* inside a "string" literal or inside a "comment"
RECURSIVE Context(_, _)
Context(chars, context) ==
    IF chars = <<>> THEN context
    ELSE CASE context = "string" ->
                 Context(Tail(chars), IF Head(chars) = "\"" THEN "code" ELSE "string")
           [] context = "comment" ->
                 Context(Tail(chars), IF Head(chars) = "\n" THEN "code" ELSE "comment")
           [] Head(chars) = "\"" -> Context(Tail(chars), "string")
           [] Head(chars) = "/" /\ Len(chars) > 1 /\ chars[2] = "/" ->
                 Context(Tail(Tail(chars)), "comment")
           [] OTHER -> Context(Tail(chars), "code")

\* the characters a token or a line can start with
TokenStarts ==
    {"\n", "(", ")", "{", "}", ".", ",", "+", "-", "*", ";", "!", "=", "<", ">", "/", "\""}
    \cup Digits \cup Letters \cup {"_"}

\* the places of a source where a character that starts no token stands
\* outside string literals and comments
BadPlaces(source) ==
    {i \in 1..Len(source) :
        source[i] \notin TokenStarts /\ Context(SubSeq(source, 1, i - 1), "code") = "code"}

\* tokens or errors with their lines moved on by a number of lines
Shifted(records, by) == [i \in 1..Len(records) |-> [records[i] EXCEPT !.line = @ + by]]

\* the scan of a source with a bad character at place i is the scan of what
\* stands before it, one LexError at the line reached, and the scan of what
\* stands after it
AroundBadPlace(source, i, tokens, errors) ==
    LET before == scan_tokens(Lexer(SubSeq(source, 1, i - 1)))
        after == scan(Lexer(SubSeq(source, i + 1, Len(source))))
    IN /\ tokens = before.tokens \o Shifted(after.tokens, before.line - 1)
       /\ errors = before.errors \o << LexError("Unexpected Token", before.line) >>
                   \o Shifted(after.errors, before.line - 1)

\* C21: each character that starts no token makes the scan record exactly one
\* LexError carrying the current line and no token; the scan goes on with the
\* next character, so the lexemes before and after it are tokens as they are
\* without it, and k such characters give k LexErrors in source order.
C21_BadCharacters ==
    last.op = "scan" =>
        \A i \in BadPlaces(last.source) :
            /\ last.tag = "ok"
            /\ AroundBadPlace(last.source, i, last.tokens, last.errors)

\* the place of the quote that opens the string literal a source leaves
\* unterminated, 0 when it leaves none
OpeningQuote(source) ==
    IF Context(source, "code") # "string" THEN 0
    ELSE CHOOSE i \in 1..Len(source) :
            /\ source[i] = "\""
            /\ Context(SubSeq(source, 1, i - 1), "code") = "code"
            /\ \A j \in (i + 1)..Len(source) : source[j] # "\""

\* the line a place of a source is on
LineOf(source, i) == 1 + Cardinality({j \in 1..(i - 1) : source[j] = "\n"})

\* C22: a string literal whose closing quote is missing at the end of input
\* yields a LexError whose line is the line of the opening quote, also when
\* the unterminated text holds newlines.
C22_UnterminatedLine ==
    (last.op = "scan" /\ OpeningQuote(last.source) > 0) =>
        /\ Len(last.errors) > 0
        /\ last.errors[Len(last.errors)] =
              LexError("Unterminated String", LineOf(last.source, OpeningQuote(last.source)))

----------------------------------------------------------------------------
(* Properties of the Parser (SpecParse) *)

\* the statements of Pieces that are malformed
MalformedPieces == {i \in 1..Len(Pieces) : Pieces[i] \notin {WellFormedLiteral, WellFormedAssign}}

\* the program without its malformed statements
WellFormedOf(pieces) == SelectSeq(pieces, LAMBDA i : i \notin MalformedPieces)

\* the number of malformed statements of a program
MalformedIn(pieces) == Len(pieces) - Len(WellFormedOf(pieces))

\* C23: parsing a program with exactly two malformed statements, each ended
\* by a semicolon, records exactly two ParseErrors, wherever the two stand and
\* whatever token each begins with, and the well-formed statements before,
\* between and after them are the statements parsed.
C23_TwoErrors ==
    (last.op = "parse" /\ last.kind = "program" /\ MalformedIn(last.input) = 2) =>
        /\ last.tag = "ok"
        /\ Len(last.errors) = 2
        /\ last.statements = parse(Parser(TokensOf(SourceOf(WellFormedOf(last.input))))).P.statements

\* the statements parsed from a source
StatementsOf(source) == parse(Parser(TokensOf(source))).P.statements

\* C24: in lhs = rhs the parser accepts a Variable (an Assign node) and a
\* property access (a Set node); for any other lhs it records the ParseError
\* "Invalid assignment target" and goes on to parse the statements that
\* follow.
C24_AssignmentTargets ==
    (last.op = "parse" /\ last.kind = "assignment") =>
        /\ last.tag = "ok"
        /\ CASE Targets[last.input] = << "a" >> ->
                   /\ last.errors = <<>>
                   /\ Len(last.statements) = 2
                   /\ last.statements[1].expr.node = "Assign"
                   /\ last.statements[1].expr.name.lexeme = "a"
                   /\ last.statements[2] = StatementsOf(<< "2", ";" >>)[1]
             [] Targets[last.input] = << "a", ".", "b" >> ->
                   /\ last.errors = <<>>
                   /\ Len(last.statements) = 2
                   /\ last.statements[1].expr.node = "Set"
                   /\ last.statements[1].expr.name.lexeme = "b"
                   /\ last.statements[2] = StatementsOf(<< "2", ";" >>)[1]
             [] OTHER ->
                   /\ last.errors = << ParseError("Invalid assignment target", 1) >>
                   /\ last.statements = StatementsOf(<< "2", ";" >>)

\* the loop body a; of ForSource
IsLoopBody(stmt) ==
    /\ stmt.node = "Expression"
    /\ stmt.expr.node = "Variable"
    /\ stmt.expr.name.lexeme = "a"

\* While(cond, body') for the clauses c
IsDesugaredLoop(stmt, c) ==
    /\ stmt.node = "WhileLoop"
    /\ IF c.cond
       THEN stmt.condition.node = "Binary" /\ stmt.condition.operator.token_type = "Less"
       ELSE stmt.condition.node = "Literal" /\ stmt.condition.token.token_type = "True"
    /\ IF c.inc
       THEN /\ stmt.statement.node = "Block"
            /\ Len(stmt.statement.statements) = 2
            /\ IsLoopBody(stmt.statement.statements[1])
            /\ stmt.statement.statements[2].node = "Expression"
            /\ stmt.statement.statements[2].expr.node = "Assign"
            /\ stmt.statement.statements[2].expr.value.token.lexeme = "3"
       ELSE IsLoopBody(stmt.statement)

\* C25: for every combination of present or omitted initializer, condition
\* and increment, for (init; cond; inc) body parses without a ParseError to
\* While(cond, body'), body' being Block[body, Expression(inc)] when the
\* increment is present and body otherwise, cond the literal true when
\* omitted, wrapped as Block[init, While] when the initializer is present.
C25_ForDesugared ==
    (last.op = "parse" /\ last.kind = "for") =>
        /\ last.tag = "ok"
        /\ last.errors = <<>>
        /\ Len(last.statements) = 1
        /\ IF last.input.init = "omitted"
           THEN IsDesugaredLoop(last.statements[1], last.input)
           ELSE /\ last.statements[1].node = "Block"
                /\ Len(last.statements[1].statements) = 2
                /\ last.statements[1].statements[1].node =
                       (IF last.input.init = "var" THEN "Var" ELSE "Expression")
                /\ IsDesugaredLoop(last.statements[1].statements[2], last.input)

RECURSIVE IsLeftNested(_, _, _)
\* expr is the left-nested tree of the given number of operands: its right
\* operand is a Variable and its left operand the tree of the operands before
IsLeftNested(expr, node, operands) ==
    IF operands = 1 THEN expr.node = "Variable"
    ELSE /\ expr.node = node
         /\ expr.right.node = "Variable"
         /\ IsLeftNested(expr.left, node, operands - 1)

\* C29: operators of one precedence level chain left-associatively: for term,
\* factor, logic_or and logic_and, as for equality and comparison, an
\* expression with three or more operands at that level parses without a
\* ParseError to the left-nested tree, Binary(Binary(a, +, b), +, c) for
\* a + b + c (Logical for or and and).
C29_LeftAssociative ==
    (last.op = "parse" /\ last.kind = "chain") =>
        /\ last.tag = "ok"
        /\ last.errors = <<>>
        /\ Len(last.statements) = 1
        /\ last.statements[1].node = "Expression"
        /\ IsLeftNested(last.statements[1].expr,
                        IF last.input.operator \in {5, 6} THEN "Logical" ELSE "Binary",
                        last.input.operands)

\* C27: for every finite token sequence ending in EOF parse terminates:
\* every iteration of its loop (one declaration, and synchronize when it
\* failed) consumes at least one token, so the ParseErrors recorded for one
\* input are at most as many as its tokens.
C27_ParseTerminates ==
    (last.op = "parse") =>
        /\ last.tag # "diverge"
        /\ Len(last.errors) <= Len(last.tokens)

\* C28: the parser reports every malformed construct as a recorded ParseError
\* and keeps going, never aborting the process: a grouping that lacks its
\* closing parenthesis and an unexpected token at the very first position of
\* the input each yield a recorded ParseError carrying a line number.
C28_NeverAborts ==
    (last.op = "parse" /\ last.kind = "program") =>
        /\ last.tag # "panic"
        /\ MalformedIn(last.input) > 0 =>
               /\ last.errors # <<>>
               /\ \A i \in 1..Len(last.errors) : last.errors[i].line >= 1

\* the token types of a sequence of tokens
TokenTypes(tokens) == [i \in 1..Len(tokens) |-> tokens[i].token_type]

C26_ClockNumber ==
    [][ /\ Resolve(globals, "clock").ok
        /\ Resolve(globals, "clock").val.kind = "NativeFunction"
        /\ Resolve(globals, "clock").val.arity = 0
        /\ Executes(VarT) =>
              /\ status' = "running"
              /\ get(envs', environment', Identifier("t", 0)).ok
              /\ get(envs', environment', Identifier("t", 0)).val.kind = "Number"
        /\ Executes(CallClock) =>
              /\ status' = "error"
              /\ error'.kind = "InterpretError"
      ]_vars

====